---- MODULE Spec2Model ----
(***************************************************************************)
(* POSIX ACL -> NFSv4 ACL migration tool (src/app/acl_migration_tool.py).  *)
(*                                                                         *)
(* Strings are sequences of one-character strings, so that formatting an   *)
(* entry and matching it against the validator's regular expression are    *)
(* computed character by character.  Modification times are integers in    *)
(* ticks of 0.0005 s.  An external command returns "ok" (exit status 0) or *)
(* "fail" (non-zero exit status, or the command could not be run: every    *)
(* wrapper of the tool turns both into the same result).                   *)
(***************************************************************************)
EXTENDS Integers, Sequences, FiniteSets, TLC

VARIABLES
    tree,        \* the entries below source_dir: their kind and their directory
    srcAcl,      \* path -> what getfacl prints for the source entry
    srcOwner,    \* path -> [uid, gid] of the source entry
    dstOwner,    \* path -> [uid, gid] of the destination entry
    dstExists,   \* path -> whether the destination entry exists
    dstAcl,      \* path -> set of NFSv4 entries present on the destination
    mtime,       \* path -> st_mtime of the source entry, in ticks
    ledger,      \* path -> row of table migrated_files, or NoRow
    cfg,         \* the constructor arguments of the running tool
    phase,       \* "idle" | "running" | "unwinding" | "finished" | "aborted"
    mode,        \* "file" when source_dir is a file, "dir" when a directory
    files,       \* the list scan_files returned, in submission order
    task,        \* path -> the state of its migrate_file_acl call
    calls,       \* path -> external commands issued for it in this run
    stats,       \* self.stats
    submitted,   \* number of tasks submitted by directory-mode runs so far
    wiped,       \* history: reset_database emptied the ledger and no
                 \* migration run has ended since
    demoted      \* history: the paths whose ledger row is a "failed" row
                 \* that replaced a "success" row of the same mtime

vars == <<tree, srcAcl, srcOwner, dstOwner, dstExists, dstAcl, mtime, ledger, cfg,
          phase, mode, files, task, calls, stats, submitted, wiped, demoted>>

envVars == <<tree, srcAcl, srcOwner, dstOwner, dstExists, dstAcl, mtime>>

-----------------------------------------------------------------------------
(* Bounds of the model. *)

(* Tasks submitted over all the runs of a behaviour in directory mode.  A   *)
(* run submits every scanned path at once.  Runs in single-file mode are   *)
(* not counted: their state space is finite as it is.                      *)
MaxTreeTasks == 2

MaxWorkers == 2

(* abs(stored_mtime - mtime) < 0.001, in ticks of 0.0005 s. *)
SkipTolerance == 2

OneSecond == 1000 * SkipTolerance

-----------------------------------------------------------------------------
(* Characters and strings. *)

Digits == {"0", "1", "2", "3", "4", "5", "6", "7", "8", "9"}

AsciiLetters ==
    {"a", "b", "c", "d", "e", "f", "g", "h", "i", "j", "k", "l", "m",
     "n", "o", "p", "q", "r", "s", "t", "u", "v", "w", "x", "y", "z",
     "A", "B", "C", "D", "E", "F", "G", "H", "I", "J", "K", "L", "M",
     "N", "O", "P", "Q", "R", "S", "T", "U", "V", "W", "X", "Y", "Z"}

Range(s) == {s[i] : i \in 1..Len(s)}

EmptyStr == <<>>

(* The names and domains the model draws from. *)
mary == <<"m", "a", "r", "y">>
peter == <<"p", "e", "t", "e", "r">>
dev1 == <<"d", "e", "v", "1">>
n1001 == <<"1", "0", "0", "1">>
example_com == <<"e", "x", "a", "m", "p", "l", "e", ".", "c", "o", "m">>
bad_domain == <<"e", "x", ":", "c">>

NoDomain == EmptyStr

Domains == {NoDomain, example_com, bad_domain}

(* POSIX permission triples. *)
Perm(r, w, x) ==
    << IF r THEN "r" ELSE "-", IF w THEN "w" ELSE "-", IF x THEN "x" ELSE "-" >>

PosixPerms == {Perm(r, w, x) : r \in BOOLEAN, w \in BOOLEAN, x \in BOOLEAN}

-----------------------------------------------------------------------------
(* convert_posix_to_nfs4 and its helpers. *)

(* Mutant: a directory gets the delete-child bit with w. *)
posix_to_nfs4_perms_dir(posix_perms, is_directory) ==
    IF posix_perms = <<"-", "-", "-">>
    THEN EmptyStr
    ELSE (IF "r" \in Range(posix_perms) THEN <<"r">> ELSE <<>>)
         \o (IF "w" \in Range(posix_perms)
             THEN (IF is_directory THEN <<"w", "D">> ELSE <<"w">>) ELSE <<>>)
         \o (IF "x" \in Range(posix_perms) THEN <<"x">> ELSE <<>>)

(* is_directory is accepted and not used. *)
posix_to_nfs4_perms(posix_perms, is_directory) ==
    IF posix_perms = <<"-", "-", "-">>
    THEN EmptyStr
    ELSE (IF "r" \in Range(posix_perms) THEN <<"r">> ELSE <<>>)
         \o (IF "w" \in Range(posix_perms) THEN <<"w">> ELSE <<>>)
         \o (IF "x" \in Range(posix_perms) THEN <<"x">> ELSE <<>>)

isdigit(name) == name # EmptyStr /\ Range(name) \subseteq Digits

(* Mutant: a numeric name passes. *)
is_valid_name_numeric(name) ==
    IF name = EmptyStr
    THEN FALSE
    ELSE Range(name) \subseteq (AsciiLetters \cup Digits \cup {"_", "-"})

is_valid_name(name) ==
    IF name = EmptyStr \/ isdigit(name)
    THEN FALSE
    ELSE Range(name) \subseteq (AsciiLetters \cup Digits \cup {"_", "-"})

(* Mutant: the suffix is added whether or not a domain is set. *)
full_name_always(name, domain) == name \o <<"@">> \o domain

full_name(name, domain) ==
    IF domain # NoDomain THEN name \o <<"@">> \o domain ELSE name

(* Mutant: an entry is emitted whatever its mapped permission is. *)
RECURSIVE convert_entries_keep_empty(_, _, _, _)
convert_entries_keep_empty(acls, flag, domain, is_dir) ==
    IF acls = <<>>
    THEN <<>>
    ELSE LET a == Head(acls)
             nfs4_perms == posix_to_nfs4_perms(a.perms, is_dir)
             rest == convert_entries_keep_empty(Tail(acls), flag, domain, is_dir)
         IN  IF ~is_valid_name(a.name)
             THEN rest
             ELSE << <<"A", ":">> \o flag \o <<":">>
                     \o full_name(a.name, domain) \o <<":">> \o nfs4_perms >>
                  \o rest

(* One pass of the loops at lines 267-282 (flag "") and 285-300 (flag "g"). *)
RECURSIVE convert_entries(_, _, _, _)
convert_entries(acls, flag, domain, is_dir) ==
    IF acls = <<>>
    THEN <<>>
    ELSE LET a == Head(acls)
             nfs4_perms == posix_to_nfs4_perms(a.perms, is_dir)
             rest == convert_entries(Tail(acls), flag, domain, is_dir)
         IN  IF ~is_valid_name(a.name)
             THEN rest
             ELSE IF nfs4_perms # EmptyStr
                  THEN << <<"A", ":">> \o flag \o <<":">>
                          \o full_name(a.name, domain) \o <<":">> \o nfs4_perms >>
                       \o rest
                  ELSE rest

(* Mutant: the group entries come first. *)
convert_posix_to_nfs4_groups_first(posix_acl, is_dir, domain) ==
    convert_entries(posix_acl.group, <<"g">>, domain, is_dir)
    \o convert_entries(posix_acl.user, <<>>, domain, is_dir)

(* Mutant: the permissions of the owner are translated too. *)
convert_posix_to_nfs4_with_owner(posix_acl, is_dir, domain) ==
    convert_entries(<<posix_acl.owner>>, <<>>, domain, is_dir)
    \o convert_entries(posix_acl.user, <<>>, domain, is_dir)
    \o convert_entries(posix_acl.group, <<"g">>, domain, is_dir)

(* is_dir is os.path.isdir(file_path), line 235. *)
convert_posix_to_nfs4(posix_acl, is_dir, domain) ==
    convert_entries(posix_acl.user, <<>>, domain, is_dir)
    \o convert_entries(posix_acl.group, <<"g">>, domain, is_dir)

-----------------------------------------------------------------------------
(* _validate_nfs4_acl: re.match(r'^[AD]:[fg]?:[^:]*:[rwaDxtTnNcy]*$', acl) *)

Nfs4PermChars == {"r", "w", "a", "D", "x", "t", "T", "n", "N", "c", "y"}

(* Index of the first ":" of s at or after position i, or 0. *)
RECURSIVE FirstColon(_, _)
FirstColon(s, i) ==
    IF i > Len(s) THEN 0
    ELSE IF s[i] = ":" THEN i
    ELSE FirstColon(s, i + 1)

(* s[i..] matches :[^:]*:[rwaDxtTnNcy]*$ *)
MatchTail(s, i) ==
    /\ i <= Len(s)
    /\ s[i] = ":"
    /\ LET j == FirstColon(s, i + 1)
       IN  /\ j # 0
           /\ \A k \in (j + 1)..Len(s) : s[k] \in Nfs4PermChars

_validate_nfs4_acl(acl) ==
    /\ Len(acl) >= 2
    /\ acl[1] \in {"A", "D"}
    /\ acl[2] = ":"
    /\ \/ (Len(acl) >= 3 /\ acl[3] \in {"f", "g"} /\ MatchTail(acl, 4))
       \/ MatchTail(acl, 3)

-----------------------------------------------------------------------------
(* The file trees.  An entry of the source tree is named by an identifier; *)
(* the tree gives the kind of every entry and the directory that holds it, *)
(* Root for source_dir itself.  In directory mode source_dir holds the     *)
(* directory f1, which holds the file f2; in single-file mode the source   *)
(* is the file f1 itself.                                                  *)

Paths == {"f1", "f2"}

Root == "source_dir"

(* The identifiers, in the order in which a directory lists its entries. *)
EntryIds == <<"f1", "f2", "f3", "f4", "f5", "f6">>

Tree(kind, parent) == [kind |-> kind, parent |-> parent]

FileTree == Tree([p \in {"f1"} |-> "file"], [p \in {"f1"} |-> Root])

DirTree ==
    Tree([p \in Paths |-> IF p = "f1" THEN "dir" ELSE "file"],
         [p \in Paths |-> IF p = "f1" THEN Root ELSE "f1"])

SourceTree(m) == IF m = "file" THEN FileTree ELSE DirTree

(* The dirs (k = "dir") or the filenames (k = "file") os.walk reports for  *)
(* the directory top, joined to it.                                        *)
listdir(t, top, k) ==
    LET Here(e) == e \in DOMAIN t.kind /\ t.parent[e] = top /\ t.kind[e] = k
    IN  SelectSeq(EntryIds, Here)

RECURSIVE Flatten(_)
Flatten(ss) == IF ss = <<>> THEN <<>> ELSE Head(ss) \o Flatten(Tail(ss))

(* os.walk(top), top down: the triple of top, then the walks of its        *)
(* directories in turn.                                                    *)
RECURSIVE os_walk(_, _)
os_walk(t, top) ==
    LET dirs == listdir(t, top, "dir")
    IN  <<[root |-> top, dirs |-> dirs, filenames |-> listdir(t, top, "file")]>>
        \o Flatten([i \in 1..Len(dirs) |-> os_walk(t, dirs[i])])

(* Mutant: only the files of a directory are appended. *)
scan_files_no_dirs(m, t) ==
    IF m = "file"
    THEN <<"f1">>
    ELSE LET walk == os_walk(t, Root)
         IN  Flatten([i \in 1..Len(walk) |-> walk[i].filenames])

(* Mutant: the top of the walk is appended before what is below it. *)
scan_files_with_root(m, t) ==
    IF m = "file"
    THEN <<"f1">>
    ELSE LET walk == os_walk(t, Root)
         IN  <<Root>> \o Flatten([i \in 1..Len(walk) |-> walk[i].dirs \o walk[i].filenames])

(* scan_files: the source itself when it is a file; else, for every triple *)
(* of the walk, its directories and then its files.                        *)
scan_files(m, t) ==
    IF m = "file"
    THEN <<"f1">>
    ELSE LET walk == os_walk(t, Root)
         IN  Flatten([i \in 1..Len(walk) |-> walk[i].dirs \o walk[i].filenames])

(* os.path.isdir *)
isdir(file_path) == file_path \in DOMAIN tree.kind /\ tree.kind[file_path] = "dir"

(* Lines 401-407: the destination of a source entry. *)
DestPath(p) == IF mode = "file" THEN <<"dest_dir">> ELSE <<"dest_dir", p>>

AclEntry(n, p) == [name |-> n, perms |-> p]

AclSet(ownerPerms, users, groups) ==
    [owner |-> [name |-> <<"r", "o", "o", "t">>, perms |-> ownerPerms],
     group_owner |-> [name |-> <<"r", "o", "o", "t">>, perms |-> Perm(TRUE, FALSE, FALSE)],
     user |-> users,
     group |-> groups,
     mask |-> Perm(TRUE, TRUE, TRUE),
     other |-> Perm(FALSE, FALSE, FALSE)]

(* get_posix_acl returns None. *)
NoAcl == [none |-> TRUE]

TreeAcl ==
    [p \in Paths |->
        IF p = "f1"
        THEN AclSet(Perm(TRUE, TRUE, TRUE),
                    <<AclEntry(mary, Perm(TRUE, TRUE, TRUE))>>,
                    <<AclEntry(dev1, Perm(TRUE, FALSE, FALSE))>>)
        ELSE AclSet(Perm(TRUE, TRUE, FALSE),
                    <<AclEntry(n1001, Perm(TRUE, TRUE, FALSE)),
                      AclEntry(peter, Perm(TRUE, FALSE, TRUE))>>,
                    <<>>)]

Owner(u, g) == [uid |-> u, gid |-> g]

-----------------------------------------------------------------------------
(* The ledger: table migrated_files, primary key source_path. *)

NoRow == [none |-> TRUE]

Row(dest_path, m, acl_hash, status) ==
    [dest_path |-> dest_path, mtime |-> m, acl_hash |-> acl_hash, status |-> status]

abs(x) == IF x < 0 THEN -x ELSE x

(* Mutants: the stored mtime compared for equality; the tolerance included. *)
_is_already_migrated_exact(source_path, m) ==
    /\ cfg.incremental
    /\ ledger[source_path] # NoRow
    /\ ledger[source_path].status = "success"
    /\ ledger[source_path].mtime = m

_is_already_migrated_le(source_path, m) ==
    /\ cfg.incremental
    /\ ledger[source_path] # NoRow
    /\ ledger[source_path].status = "success"
    /\ abs(ledger[source_path].mtime - m) <= SkipTolerance

_is_already_migrated(source_path, m) ==
    IF ~cfg.incremental
    THEN FALSE
    ELSE LET result == ledger[source_path]
         IN  IF result # NoRow /\ result.status = "success"
             THEN abs(result.mtime - m) < SkipTolerance
             ELSE FALSE

(* json.dumps(posix_acl, sort_keys=True) if posix_acl else "" *)
AclHash(posix_acl) == IF posix_acl = NoAcl THEN EmptyStr ELSE <<posix_acl>>

-----------------------------------------------------------------------------
(* Outcomes: the tuple (path, success, message) migrate_file_acl returns.  *)
(* A message is its fixed text, the items joined into it and the entry     *)
(* count formatted into it.                                                 *)

MsgDestMissing == "dest file does not exist"    \* "目标文件不存在"
MsgSkipped == "already migrated (skipped)"      \* "已迁移(跳过)"
MsgMigrated == "migrated"                       \* "成功迁移: ..."
MsgNothing == "nothing to migrate"              \* "无需迁移"
MsgFailed == "migration failed"                 \* "迁移失败: ..."
MsgNoAcl == "no extended ACL"                   \* "无扩展ACL"
ItemOwnership == "ownership"                    \* "所有权"
ItemAclEntries == "N ACL entries"               \* f"{acl_count}个ACL条目"
ItemAcl == "ACL"
MsgDbError == "sqlite3.OperationalError"        \* str(e)

Message(text, items, n) == [text |-> text, items |-> items, count |-> n]

Outcome(p, success, message) == [path |-> p, success |-> success, message |-> message]

NoResult == [none |-> TRUE]

(* s in message *)
Contains(message, s) == message.text = s \/ s \in Range(message.items)

CallResults == {"ok", "fail"}

Call(tool, arg, path, res) == [tool |-> tool, arg |-> arg, path |-> path, res |-> res]

-----------------------------------------------------------------------------
(* Tasks: one migrate_file_acl call per scanned path. *)

QueuedTask ==
    [pc |-> "queued", source_mtime |-> 0, ownership_success |-> TRUE,
     posix_acl |-> NoAcl, nfs4_acls |-> <<>>, acl_success |-> TRUE,
     acl_count |-> 0, idx |-> 0, result |-> NoResult, late |-> FALSE]

NoTask == [QueuedTask EXCEPT !.pc = "none"]

NoStats == [total_files |-> 0, success |-> 0, failed |-> 0, skipped |-> 0, no_acl |-> 0]

(* The call of migrate_file_acl for p has started and not returned; at     *)
(* "hung" it waits for a command or a ledger operation that never returns. *)
Running(p) == task[p].pc \in {"own", "acquire", "apply", "record", "hung"}

Finished(p) == task[p].pc \in {"done", "collected"}

Position(p) == CHOOSE i \in 1..Len(files) : files[i] = p

(* return (str(source_file), success, message) *)
Return(p, t, success, message) ==
    [t EXCEPT !.pc = "done", !.result = Outcome(p, success, message)]

(* The future of a task that let an exception escape. *)
Raised(p, e) == [path |-> p, exception |-> e]

IsOutcome(r) == r # NoResult /\ "success" \in DOMAIN r

(* Mutant: the exception escapes the task. *)
CatchNothing(p, t, e) == [t EXCEPT !.pc = "done", !.result = Raised(p, e)]

(* Lines 462-464: except Exception as e: return (path, False, str(e)) *)
Catch(p, t, e) == Return(p, t, FALSE, Message(e, <<>>, 0))

(* Mutant: the ownership result is left out. *)
OverallSuccessAclOnly(t) == t.acl_success

(* Line 434 *)
OverallSuccess(t) == t.ownership_success /\ t.acl_success

(* Mutant: every attempt is recorded as a success. *)
MigrationStatusAlwaysSuccess(t) == "success"

(* Line 435 *)
MigrationStatus(t) == IF OverallSuccess(t) THEN "success" ELSE "failed"

(* Lines 443-447 *)
SuccessMessages(t) ==
    (IF cfg.migrate_ownership /\ t.ownership_success THEN <<ItemOwnership>> ELSE <<>>)
    \o (IF t.acl_count > 0 /\ t.acl_success THEN <<ItemAclEntries>> ELSE <<>>)

(* Mutant: both components are named whichever failed. *)
FailedItemsBoth(t) == <<ItemOwnership, ItemAcl>>

(* Lines 455-459 *)
FailedItems(t) ==
    (IF cfg.migrate_ownership /\ ~t.ownership_success THEN <<ItemOwnership>> ELSE <<>>)
    \o (IF ~t.acl_success THEN <<ItemAcl>> ELSE <<>>)

(* Lines 449-460 *)
FinalOutcome(p, t) ==
    IF OverallSuccess(t)
    THEN IF SuccessMessages(t) # <<>>
         THEN Return(p, t, TRUE, Message(MsgMigrated, SuccessMessages(t), t.acl_count))
         ELSE Return(p, t, TRUE, Message(MsgNothing, <<>>, 0))
    ELSE Return(p, t, FALSE, Message(MsgFailed, FailedItems(t), 0))

(* Mutant: the list is not validated. *)
apply_nfs4_acl_unchecked(t) ==
    IF t.nfs4_acls = <<>>
    THEN [t EXCEPT !.acl_success = TRUE, !.pc = "record"]
    ELSE [t EXCEPT !.idx = 1, !.pc = "apply"]

(* apply_nfs4_acl up to its first command: an empty list is a success, a   *)
(* list with an entry the validator rejects a failure, and any other list  *)
(* goes to _apply_acl_individually.                                         *)
apply_nfs4_acl(t) ==
    IF t.nfs4_acls = <<>>
    THEN [t EXCEPT !.acl_success = TRUE, !.pc = "record"]
    ELSE IF \E i \in 1..Len(t.nfs4_acls) : ~_validate_nfs4_acl(t.nfs4_acls[i])
    THEN [t EXCEPT !.acl_success = FALSE, !.pc = "record"]
    ELSE [t EXCEPT !.idx = 1, !.pc = "apply"]

(* Mutant: the entries are translated and counted but never applied. *)
AfterAcquireSkipApply(t, posix_acl, is_dir, domain) ==
    IF posix_acl # NoAcl
    THEN LET nfs4_acls == convert_posix_to_nfs4(posix_acl, is_dir, domain)
         IN  [t EXCEPT !.posix_acl = posix_acl, !.nfs4_acls = nfs4_acls,
                       !.acl_count = Len(nfs4_acls), !.pc = "record"]
    ELSE [t EXCEPT !.posix_acl = NoAcl, !.pc = "record"]

(* Mutant: an empty translation counts as a failed ACL step. *)
AfterAcquireEmptyFails(t, posix_acl, is_dir, domain) ==
    IF posix_acl # NoAcl
    THEN LET nfs4_acls == convert_posix_to_nfs4(posix_acl, is_dir, domain)
             u == [t EXCEPT !.posix_acl = posix_acl, !.nfs4_acls = nfs4_acls,
                            !.acl_count = Len(nfs4_acls)]
         IN  IF nfs4_acls # <<>>
             THEN apply_nfs4_acl(u)
             ELSE [u EXCEPT !.acl_success = FALSE, !.pc = "record"]
    ELSE [t EXCEPT !.posix_acl = NoAcl, !.pc = "record"]

(* Lines 426-430 *)
AfterAcquire(t, posix_acl, is_dir, domain) ==
    IF posix_acl # NoAcl
    THEN LET nfs4_acls == convert_posix_to_nfs4(posix_acl, is_dir, domain)
             u == [t EXCEPT !.posix_acl = posix_acl, !.nfs4_acls = nfs4_acls,
                            !.acl_count = Len(nfs4_acls)]
         IN  IF nfs4_acls # <<>> THEN apply_nfs4_acl(u) ELSE [u EXCEPT !.pc = "record"]
    ELSE [t EXCEPT !.posix_acl = NoAcl, !.pc = "record"]

(* No invocation of the tool is in progress. *)
Stopped == phase = "idle"

Init ==
    /\ srcAcl = TreeAcl
    /\ srcOwner = [p \in Paths |-> Owner(1001, 100)]
    /\ dstOwner = [p \in Paths |-> IF p = "f1" THEN Owner(0, 0) ELSE Owner(1001, 0)]
    /\ dstExists = [p \in Paths |-> TRUE]
    /\ dstAcl = [p \in Paths |-> {}]
    /\ mtime = [p \in Paths |-> OneSecond]
    /\ ledger = [p \in Paths |-> NoRow]
    /\ mode \in {"file", "dir"}
    /\ tree = SourceTree(mode)
    /\ cfg \in [incremental : {FALSE}, migrate_ownership : {FALSE},
               workers : IF mode = "file" THEN {1} ELSE 1..MaxWorkers,
               domain : Domains]
    /\ phase = "idle"
    /\ files = <<>>
    /\ task = [p \in Paths |-> NoTask]
    /\ calls = [p \in Paths |-> <<>>]
    /\ stats = NoStats
    /\ submitted = 0
    /\ wiped = FALSE
    /\ demoted = {}

(* main builds the tool; migrate scans the tree and submits every path.   *)
(* The worker count and the domain are those of the first invocation; one *)
(* worker serves the single task of single-file mode.                     *)
Submit(incremental, migrate_ownership) ==
    /\ Stopped
    /\ cfg' = [cfg EXCEPT !.incremental = incremental,
                          !.migrate_ownership = migrate_ownership]
    /\ files' = scan_files(mode, tree)
    /\ stats' = [NoStats EXCEPT !.total_files = Len(scan_files(mode, tree))]
    /\ task' = [p \in DOMAIN task |->
                   IF p \in Range(scan_files(mode, tree)) THEN QueuedTask ELSE NoTask]
    /\ calls' = [p \in DOMAIN calls |-> <<>>]
    /\ phase' = "running"
    /\ UNCHANGED <<envVars, ledger, mode, wiped, demoted>>

(* One invocation of the tool for a migration, counted against             *)
(* MaxTreeTasks in directory mode.                                         *)
StartRun(incremental, migrate_ownership) ==
    /\ IF mode = "file"
       THEN submitted' = submitted
       ELSE /\ submitted + Len(scan_files(mode, tree)) <= MaxTreeTasks
            /\ submitted' = submitted + Len(scan_files(mode, tree))
    /\ Submit(incremental, migrate_ownership)

(* Mutant: the destination is not tested. *)
BeginTaskNoDestCheck(p, t, db_ok) ==
    IF cfg.incremental /\ ~db_ok
    THEN Catch(p, t, MsgDbError)
    ELSE IF _is_already_migrated(p, mtime[p])
    THEN Return(p, t, TRUE, Message(MsgSkipped, <<>>, 0))
    ELSE [t EXCEPT !.source_mtime = mtime[p],
                   !.pc = IF cfg.migrate_ownership THEN "own" ELSE "acquire"]

(* Lines 399-419, up to the first external command.  Reading the ledger   *)
(* raises when sqlite3 cannot read it.                                     *)
BeginTask(p, t, db_ok) ==
    IF ~dstExists[p]
    THEN Return(p, t, FALSE, Message(MsgDestMissing, <<>>, 0))
    ELSE IF cfg.incremental /\ ~db_ok
    THEN Catch(p, t, MsgDbError)
    ELSE IF _is_already_migrated(p, mtime[p])
    THEN Return(p, t, TRUE, Message(MsgSkipped, <<>>, 0))
    ELSE [t EXCEPT !.source_mtime = mtime[p],
                   !.pc = IF cfg.migrate_ownership THEN "own" ELSE "acquire"]

(* Mutant: the pool starts a thread for every work item. *)
WorkerFreeAlways == TRUE

(* Mutant: one thread of the pool is never used. *)
WorkerFreeButOne == Cardinality({q \in Paths : Running(q)}) < cfg.workers - 1

(* ThreadPoolExecutor(max_workers=self.workers): a work item is taken by   *)
(* a worker thread that runs no task.                                       *)
WorkerFree == Cardinality({q \in Paths : Running(q)}) < cfg.workers

(* Mutant: a skip is recorded in the ledger. *)
BeginRecordsSkip(p) ==
    /\ phase \in {"running", "unwinding"}
    /\ task[p].pc = "queued"
    /\ \A q \in Range(files) : Position(q) < Position(p) => task[q].pc # "queued"
    /\ WorkerFree
    /\ \E db_ok \in (IF cfg.incremental /\ dstExists[p] THEN BOOLEAN ELSE {TRUE}) :
          LET t == BeginTask(p, [task[p] EXCEPT !.late = (phase = "unwinding")], db_ok)
          IN  /\ task' = [task EXCEPT ![p] = t]
              /\ ledger' = IF t.pc = "done" /\ t.result.message.text = MsgSkipped
                           THEN [ledger EXCEPT
                                    ![p] = Row(DestPath(p), mtime[p], EmptyStr, "skipped")]
                           ELSE ledger
    /\ UNCHANGED <<envVars, cfg, phase, mode, files, calls, stats, submitted, wiped, demoted>>

(* A worker thread takes the next work item off the executor's queue and   *)
(* starts migrate_file_acl.  The executor is shut down with wait=True and  *)
(* without cancel_futures, so its workers go on taking the queued items    *)
(* while an exception unwinds the with block of migrate.                   *)
Begin(p) ==
    /\ phase \in {"running", "unwinding"}
    /\ task[p].pc = "queued"
    /\ \A q \in Range(files) : Position(q) < Position(p) => task[q].pc # "queued"
    /\ WorkerFree
    /\ \E db_ok \in (IF cfg.incremental /\ dstExists[p] THEN BOOLEAN ELSE {TRUE}) :
          task' = [task EXCEPT ![p] =
                      BeginTask(p, [task[p] EXCEPT !.late = (phase = "unwinding")], db_ok)]
    /\ UNCHANGED <<envVars, ledger, cfg, phase, mode, files, calls, stats, submitted, wiped, demoted>>

(* Mutant: only the owning user is compared. *)
OwnershipMatchesUid(source_stat, dest_stat) == source_stat.uid = dest_stat.uid

(* Line 359 *)
OwnershipMatches(source_stat, dest_stat) ==
    source_stat.uid = dest_stat.uid /\ source_stat.gid = dest_stat.gid

(* migrate_file_ownership *)
MigrateOwnership(p) ==
    /\ task[p].pc = "own"
    /\ IF OwnershipMatches(srcOwner[p], dstOwner[p])
       THEN /\ task' = [task EXCEPT ![p].ownership_success = TRUE, ![p].pc = "acquire"]
            /\ UNCHANGED <<dstOwner, calls>>
       ELSE \E res \in CallResults :
            /\ calls' = [calls EXCEPT ![p] =
                            Append(@, Call("chown", srcOwner[p], DestPath(p), res))]
            /\ dstOwner' = IF res = "ok" THEN [dstOwner EXCEPT ![p] = srcOwner[p]] ELSE dstOwner
            /\ task' = [task EXCEPT ![p].ownership_success = (res = "ok"),
                                    ![p].pc = "acquire"]
    /\ UNCHANGED <<tree, srcAcl, srcOwner, dstExists, dstAcl, mtime, ledger, cfg, phase,
                   mode, files, stats, submitted, wiped, demoted>>

(* get_posix_acl, then lines 423-430 up to the first command of            *)
(* apply_nfs4_acl.                                                          *)
Acquire(p) ==
    /\ task[p].pc = "acquire"
    /\ \E res \in CallResults :
       /\ calls' = [calls EXCEPT ![p] = Append(@, Call("getfacl", <<>>, p, res))]
       /\ task' = [task EXCEPT ![p] =
                      AfterAcquire(@, IF res = "ok" THEN srcAcl[p] ELSE NoAcl,
                                   isdir(p), cfg.domain)]
    /\ UNCHANGED <<envVars, ledger, cfg, phase, mode, files, stats, submitted, wiped, demoted>>

(* Mutant: the loop goes on after a failed command. *)
AfterApplyContinue(t, res) ==
    IF t.idx = Len(t.nfs4_acls)
    THEN [t EXCEPT !.acl_success = (res = "ok" /\ t.acl_success), !.pc = "record"]
    ELSE [t EXCEPT !.acl_success = (res = "ok" /\ t.acl_success), !.idx = @ + 1]

(* The task after the command of one turn of the loop of                   *)
(* _apply_acl_individually returned res.                                    *)
AfterApply(t, res) ==
    IF res # "ok"
    THEN [t EXCEPT !.acl_success = FALSE, !.pc = "record"]
    ELSE IF t.idx = Len(t.nfs4_acls)
    THEN [t EXCEPT !.acl_success = TRUE, !.pc = "record"]
    ELSE [t EXCEPT !.idx = @ + 1]

(* Mutant: the command sets the ACL to the entry. *)
SetfaclCommandSet(acl, file_path, res) ==
    Call("nfs4_setfacl", acl, file_path, res) @@ [opt |-> "-s"]

(* Lines 338-339: ['nfs4_setfacl', '-a', acl, file_path] *)
SetfaclCommand(acl, file_path, res) ==
    Call("nfs4_setfacl", acl, file_path, res) @@ [opt |-> "-a"]

(* What nfs4_setfacl does to the ACL of the file it is run on: -a adds    *)
(* the entry, -s replaces the ACL by the entry; a failed run changes       *)
(* nothing.                                                                 *)
SetfaclEffect(cmd, current) ==
    IF cmd.res # "ok" THEN current
    ELSE IF cmd.opt = "-a" THEN current \cup {cmd.arg}
    ELSE {cmd.arg}

(* One turn of the loop of _apply_acl_individually: nfs4_setfacl -a. *)
ApplyEntry(p) ==
    /\ task[p].pc = "apply"
    /\ LET acl == task[p].nfs4_acls[task[p].idx]
       IN  \E res \in CallResults :
           LET cmd == SetfaclCommand(acl, DestPath(p), res)
           IN  /\ calls' = [calls EXCEPT ![p] = Append(@, cmd)]
               /\ dstAcl' = [dstAcl EXCEPT ![p] = SetfaclEffect(cmd, @)]
               /\ task' = [task EXCEPT ![p] = AfterApply(@, res)]
    /\ UNCHANGED <<tree, srcAcl, srcOwner, dstOwner, dstExists, mtime, ledger, cfg, phase,
                   mode, files, stats, submitted, wiped, demoted>>

(* Mutant: the table is emptied before the row is inserted. *)
_record_migration_alone(db, source_path, dest_path, m, acl_hash, status) ==
    [q \in Paths |->
        IF q = source_path THEN Row(dest_path, m, acl_hash, status) ELSE NoRow]

(* Mutant: INSERT OR IGNORE, the row of an earlier attempt is kept. *)
_record_migration_ignore(db, source_path, dest_path, m, acl_hash, status) ==
    IF db[source_path] # NoRow
    THEN db
    ELSE [db EXCEPT ![source_path] = Row(dest_path, m, acl_hash, status)]

(* INSERT OR REPLACE INTO migrated_files, in a connection and a            *)
(* transaction of its own.                                                  *)
_record_migration(db, source_path, dest_path, m, acl_hash, status) ==
    [db EXCEPT ![source_path] = Row(dest_path, m, acl_hash, status)]

(* INSERT OR REPLACE of a "failed" row over a "success" row of the same     *)
(* mtime.                                                                   *)
Demotes(row, m, status) ==
    row # NoRow /\ row.status = "success" /\ row.mtime = m /\ status = "failed"

(* Lines 432-460: _record_migration, then the outcome.  When the ledger    *)
(* cannot be written sqlite3 raises and no row is written.                 *)
Record(p) ==
    /\ task[p].pc = "record"
    /\ \/ /\ ledger' = _record_migration(ledger, p, DestPath(p), task[p].source_mtime,
                                          AclHash(task[p].posix_acl),
                                          MigrationStatus(task[p]))
          /\ task' = [task EXCEPT ![p] = FinalOutcome(p, @)]
          /\ demoted' = IF Demotes(ledger[p], task[p].source_mtime, MigrationStatus(task[p]))
                        THEN demoted \cup {p}
                        ELSE demoted \ {p}
       \/ /\ ledger' = ledger
          /\ task' = [task EXCEPT ![p] = Catch(p, @, MsgDbError)]
          /\ demoted' = demoted
    /\ UNCHANGED <<envVars, cfg, phase, mode, files, calls, stats, submitted, wiped>>

(* Mutant: an outcome that is no skip is counted as a success. *)
CountNoFailure(st, success, message) ==
    IF Contains(message, MsgSkipped) THEN [st EXCEPT !.skipped = @ + 1]
    ELSE IF Contains(message, MsgNoAcl) THEN [st EXCEPT !.no_acl = @ + 1]
    ELSE [st EXCEPT !.success = @ + 1]

(* Lines 515-526 *)
Count(st, success, message) ==
    IF Contains(message, MsgSkipped) THEN [st EXCEPT !.skipped = @ + 1]
    ELSE IF Contains(message, MsgNoAcl) THEN [st EXCEPT !.no_acl = @ + 1]
    ELSE IF success THEN [st EXCEPT !.success = @ + 1]
    ELSE [st EXCEPT !.failed = @ + 1]

(* One turn of the as_completed loop of migrate.  future.result() raises   *)
(* what the task raised, which leaves the loop and the with block.         *)
Collect(p) ==
    /\ phase = "running"
    /\ task[p].pc = "done"
    /\ IF IsOutcome(task[p].result)
       THEN /\ stats' = Count(stats, task[p].result.success, task[p].result.message)
            /\ phase' = phase
       ELSE /\ stats' = stats
            /\ phase' = "unwinding"
    /\ task' = [task EXCEPT ![p].pc = "collected"]
    /\ UNCHANGED <<envVars, ledger, cfg, mode, files, calls, submitted, wiped, demoted>>

(* The loop ends, the executor shuts down and print_summary runs. *)
Finish ==
    /\ phase = "running"
    /\ \A p \in Range(files) : task[p].pc = "collected"
    /\ phase' = "finished"
    /\ UNCHANGED <<envVars, ledger, cfg, mode, files, task, calls, stats, submitted, wiped, demoted>>

(* KeyboardInterrupt is raised in the main thread inside the loop. *)
Interrupt ==
    /\ phase = "running"
    /\ phase' = "unwinding"
    /\ UNCHANGED <<envVars, ledger, cfg, mode, files, task, calls, stats, submitted, wiped, demoted>>

(* ThreadPoolExecutor.__exit__ has joined the workers; the exception       *)
(* reaches main, which prints a message and exits with status 1.           *)
Abort ==
    /\ phase = "unwinding"
    /\ \A p \in Range(files) : Finished(p)
    /\ phase' = "aborted"
    /\ UNCHANGED <<envVars, ledger, cfg, mode, files, task, calls, stats, submitted, wiped, demoted>>

(* The process ends: with status 0 after the summary, with status 1 after *)
(* an interrupt.  What it held in memory is gone.                          *)
Exit ==
    /\ phase \in {"finished", "aborted"}
    /\ phase' = "idle"
    /\ files' = <<>>
    /\ task' = [p \in Paths |-> NoTask]
    /\ calls' = [p \in Paths |-> <<>>]
    /\ stats' = NoStats
    /\ cfg' = [cfg EXCEPT !.incremental = FALSE, !.migrate_ownership = FALSE]
    /\ wiped' = FALSE
    /\ UNCHANGED <<envVars, ledger, mode, submitted, demoted>>

(* Mutant: only the rows of failed attempts are deleted. *)
reset_database_failed_only(db) ==
    [p \in DOMAIN db |->
        IF db[p] # NoRow /\ db[p].status = "success" THEN db[p] ELSE NoRow]

(* DELETE FROM migrated_files *)
reset_database(db) == [p \in DOMAIN db |-> NoRow]

(* main --reset-db: reset_database, which returns True when the rows are   *)
(* deleted and False, with the ledger as it was, on an error.              *)
ResetDatabase ==
    /\ Stopped
    /\ \/ ledger' = reset_database(ledger) /\ wiped' = TRUE /\ demoted' = {}
       \/ ledger' = ledger /\ wiped' = wiped /\ demoted' = demoted
    /\ UNCHANGED <<envVars, cfg, phase, mode, files, task, calls, stats, submitted>>

(* The source entry is modified between two invocations.  Only the        *)
(* distance to the mtime of its ledger row matters, so it is modified only *)
(* once it has a row.                                                       *)
Touch(p, m) ==
    /\ Stopped
    /\ ledger[p] # NoRow
    /\ m # mtime[p]
    /\ mtime' = [mtime EXCEPT ![p] = m]
    /\ UNCHANGED <<tree, srcAcl, srcOwner, dstOwner, dstExists, dstAcl, ledger, cfg, phase,
                   mode, files, task, calls, stats, submitted, wiped, demoted>>

(* The destination entry is removed between two invocations. *)
RemoveDest(p) ==
    /\ Stopped
    /\ p \in Range(scan_files(mode, tree))
    /\ dstExists[p]
    /\ dstExists' = [dstExists EXCEPT ![p] = FALSE]
    /\ dstAcl' = [dstAcl EXCEPT ![p] = {}]
    /\ UNCHANGED <<tree, srcAcl, srcOwner, dstOwner, mtime, ledger, cfg, phase,
                   mode, files, task, calls, stats, submitted, wiped, demoted>>

MTimes == {OneSecond, OneSecond + 1, OneSecond + SkipTolerance, OneSecond + OneSecond}

Next ==
    \/ \E i \in BOOLEAN, o \in BOOLEAN : StartRun(i, o)
    \/ \E p \in Paths : Begin(p)
    \/ \E p \in Paths : MigrateOwnership(p)
    \/ \E p \in Paths : Acquire(p)
    \/ \E p \in Paths : ApplyEntry(p)
    \/ \E p \in Paths : Record(p)
    \/ \E p \in Paths : Collect(p)
    \/ Finish
    \/ Interrupt
    \/ Abort
    \/ Exit
    \/ ResetDatabase
    \/ \E p \in Paths, m \in MTimes : Touch(p, m)
    \/ \E p \in Paths : RemoveDest(p)

Spec == Init /\ [][Next]_vars

-----------------------------------------------------------------------------
(* apply_nfs4_acl on its own: the list it is handed is drawn from the      *)
(* entries below, which the translator or an operator may have written.    *)

MaxListLen == 3

EntryChoices ==
    { <<"A", ":", ":", "p", "e", "t", "e", "r", ":", "r", "w", "x">>,
      <<"A", ":", "g", ":", "d", "e", "v", "1", "@", "e", "x", ":", "r", "w">>,
      <<"A", ":", "g", ":", "d", "e", "v", "1", ":", "r", "w">>,
      <<"D", ":", "f", ":", "b", "o", "b", ":", "r", "w", "a", "D", "x", "t", "T", "n", "N", "c", "y">>,
      <<"X", ":", ":", "p", "e", "t", "e", "r", ":", "r", "w", "x">>,
      <<"A", ":", "x", ":", "p", "e", "t", "e", "r", ":", "r", "w", "x">>,
      <<"A", ":", ":", "p", "e", "t", "e", "r", ":", "r", "w", "z">> }

EntryLists == UNION {[1..n -> EntryChoices] : n \in 0..MaxListLen}

InitApply ==
    /\ srcAcl = TreeAcl
    /\ srcOwner = [p \in Paths |-> Owner(1001, 100)]
    /\ dstOwner = [p \in Paths |-> Owner(1001, 100)]
    /\ dstExists = [p \in Paths |-> TRUE]
    /\ dstAcl = [p \in Paths |-> {}]
    /\ mtime = [p \in Paths |-> OneSecond]
    /\ ledger = [p \in Paths |-> NoRow]
    /\ mode = "file"
    /\ tree = SourceTree(mode)
    /\ cfg = [incremental |-> FALSE, migrate_ownership |-> FALSE, workers |-> 1,
              domain |-> NoDomain]
    /\ phase = "running"
    /\ files = <<"f1">>
    /\ \E acls \in EntryLists :
          task = [p \in Paths |->
                    IF p = "f1"
                    THEN [QueuedTask EXCEPT !.pc = "call", !.nfs4_acls = acls,
                                            !.source_mtime = OneSecond]
                    ELSE NoTask]
    /\ calls = [p \in Paths |-> <<>>]
    /\ stats = [NoStats EXCEPT !.total_files = 1]
    /\ submitted = 0
    /\ wiped = FALSE
    /\ demoted = {}

(* apply_nfs4_acl(file_path, nfs4_acls) is called. *)
ApplyCall(p) ==
    /\ task[p].pc = "call"
    /\ task' = [task EXCEPT ![p] = apply_nfs4_acl(@)]
    /\ UNCHANGED <<envVars, ledger, cfg, phase, mode, files, calls, stats, submitted, wiped, demoted>>

NextApply ==
    \/ \E p \in Paths : ApplyCall(p)
    \/ \E p \in Paths : ApplyEntry(p)

SpecApply == InitApply /\ [][NextApply]_vars

-----------------------------------------------------------------------------
(* The translation on its own: one task about to run get_posix_acl on a   *)
(* source entry whose named entries are drawn from the choices below.      *)

(* Named entries of the source entry, users and groups together. *)
MaxNamed == 2

dotted == <<"a", ".", "b">>
web_1 == <<"w", "e", "b", "-", "1", "_", "a">>

UserEntryChoices ==
    {AclEntry(mary, perms) : perms \in PosixPerms}
    \cup {AclEntry(n1001, Perm(TRUE, TRUE, FALSE)),
          AclEntry(dotted, Perm(TRUE, TRUE, TRUE)),
          AclEntry(web_1, Perm(TRUE, FALSE, TRUE))}

GroupEntryChoices ==
    {AclEntry(dev1, Perm(TRUE, FALSE, FALSE)), AclEntry(n1001, Perm(TRUE, TRUE, FALSE))}

(* The AclSets whose users followed by groups are a list of lists. *)
AclSetsOf(lists) ==
    UNION {{AclSet(Perm(TRUE, TRUE, FALSE), SubSeq(l, 1, k), SubSeq(l, k + 1, Len(l))) :
               k \in 0..Len(l)} : l \in lists}

(* The AclSets of at most MaxNamed named entries. *)
AclChoices ==
    UNION {{AclSet(Perm(TRUE, TRUE, FALSE), u, g) :
               u \in UNION {[1..n -> UserEntryChoices] : n \in 0..(MaxNamed - k)},
               g \in [1..k -> GroupEntryChoices]} : k \in 0..MaxNamed}

InitTranslation(acls, domains, modes) ==
    /\ \E a \in acls : srcAcl = [p \in Paths |-> IF p = "f1" THEN a ELSE TreeAcl[p]]
    /\ srcOwner = [p \in Paths |-> Owner(1001, 100)]
    /\ dstOwner = [p \in Paths |-> Owner(1001, 100)]
    /\ dstExists = [p \in Paths |-> TRUE]
    /\ dstAcl = [p \in Paths |-> {}]
    /\ mtime = [p \in Paths |-> OneSecond]
    /\ ledger = [p \in Paths |-> NoRow]
    /\ mode \in modes
    /\ tree = SourceTree(mode)
    /\ cfg \in [incremental : {FALSE}, migrate_ownership : {FALSE}, workers : {1},
               domain : domains]
    /\ phase = "running"
    /\ files = <<"f1">>
    /\ task = [p \in Paths |->
                 IF p = "f1"
                 THEN [QueuedTask EXCEPT !.pc = "acquire", !.source_mtime = OneSecond]
                 ELSE NoTask]
    /\ calls = [p \in Paths |-> <<>>]
    /\ stats = [NoStats EXCEPT !.total_files = 1]
    /\ submitted = 0
    /\ wiped = FALSE
    /\ demoted = {}

InitConvert == InitTranslation(AclChoices, {NoDomain, example_com}, {"file", "dir"})

NextConvert ==
    \/ \E p \in Paths : Acquire(p)
    \/ \E p \in Paths : ApplyEntry(p)
    \/ \E p \in Paths : Record(p)

SpecConvert == InitConvert /\ [][NextConvert]_vars

(* The same with longer lists of fewer entries, any of them a user or a    *)
(* group, for the order of the translation.                                *)
MaxOrdered == 3

OrderedEntryChoices ==
    {AclEntry(mary, Perm(TRUE, TRUE, TRUE)), AclEntry(dev1, Perm(TRUE, FALSE, FALSE)),
     AclEntry(n1001, Perm(TRUE, TRUE, FALSE)), AclEntry(peter, Perm(FALSE, FALSE, FALSE))}

OrderedLists == UNION {[1..n -> OrderedEntryChoices] : n \in 0..MaxOrdered}

InitOrder == InitTranslation(AclSetsOf(OrderedLists), {example_com}, {"file"})

SpecOrder == InitOrder /\ [][NextConvert]_vars

(* The tree walk on its own: a run in directory mode over a source tree   *)
(* drawn from the trees of at most MaxEntries entries, with ownership      *)
(* migration, followed up to the end of the task of the first path.  An    *)
(* entry is held by source_dir or by a directory listed before it.  Every  *)
(* entry has an ACL and an owner of its own.                               *)
MaxEntries == 4

AllEntries == Range(EntryIds)

EntryIndex(e) == CHOOSE i \in 1..Len(EntryIds) : EntryIds[i] = e

(* The trees over the entries es. *)
TreesOver(es) ==
    UNION {{Tree(kind, parent) :
               parent \in {f \in [es -> {Root} \cup es] :
                              \A e \in es :
                                 \/ f[e] = Root
                                 \/ /\ EntryIndex(f[e]) < EntryIndex(e)
                                    /\ kind[f[e]] = "dir"}} :
           kind \in [es -> {"dir", "file"}]}

TreeChoices == UNION {TreesOver({EntryIds[i] : i \in 1..n}) : n \in 0..MaxEntries}

ScanPerms ==
    <<Perm(TRUE, TRUE, TRUE), Perm(TRUE, TRUE, FALSE), Perm(TRUE, FALSE, TRUE),
      Perm(TRUE, FALSE, FALSE), Perm(FALSE, TRUE, TRUE), Perm(FALSE, TRUE, FALSE)>>

ScanAcl(e) ==
    AclSet(Perm(TRUE, TRUE, TRUE), <<AclEntry(mary, ScanPerms[EntryIndex(e)])>>, <<>>)

InitScan ==
    /\ mode = "dir"
    /\ tree \in TreeChoices
    /\ srcAcl = [p \in AllEntries |-> ScanAcl(p)]
    /\ srcOwner = [p \in AllEntries |-> Owner(1000 + EntryIndex(p), 100)]
    /\ dstOwner = [p \in AllEntries |-> Owner(0, 0)]
    /\ dstExists = [p \in AllEntries |-> TRUE]
    /\ dstAcl = [p \in AllEntries |-> {}]
    /\ mtime = [p \in AllEntries |-> OneSecond]
    /\ ledger = [p \in AllEntries |-> NoRow]
    /\ cfg = [incremental |-> FALSE, migrate_ownership |-> FALSE, workers |-> 1,
              domain |-> NoDomain]
    /\ phase = "idle"
    /\ files = <<>>
    /\ task = [p \in AllEntries |-> NoTask]
    /\ calls = [p \in AllEntries |-> <<>>]
    /\ stats = NoStats
    /\ submitted = 0
    /\ wiped = FALSE
    /\ demoted = {}

(* One invocation with --ownership, whatever the size of the tree. *)
StartScan ==
    /\ Submit(FALSE, TRUE)
    /\ UNCHANGED submitted

NextScan ==
    \/ StartScan
    \/ \E p \in AllEntries : files # <<>> /\ p = Head(files) /\ Begin(p)
    \/ \E p \in AllEntries : MigrateOwnership(p)
    \/ \E p \in AllEntries : Acquire(p)
    \/ \E p \in AllEntries : ApplyEntry(p)
    \/ \E p \in AllEntries : Record(p)

SpecScan == InitScan /\ [][NextScan]_vars

(* Termination.  subprocess.run and the sqlite3 calls are given no         *)
(* timeout by the tool: a command or a ledger operation either returns or  *)
(* never does, and then the call of migrate_file_acl stays where it is.    *)
(* One run is followed from the initial state to its end.                  *)
Hang(p) ==
    /\ task[p].pc \in {"own", "acquire", "apply", "record"}
    /\ task' = [task EXCEPT ![p].pc = "hung"]
    /\ UNCHANGED <<envVars, ledger, cfg, phase, mode, files, calls, stats, submitted, wiped, demoted>>

NextLive ==
    \/ \E i \in BOOLEAN, o \in BOOLEAN : StartRun(i, o)
    \/ \E p \in Paths : Begin(p)
    \/ \E p \in Paths : MigrateOwnership(p)
    \/ \E p \in Paths : Acquire(p)
    \/ \E p \in Paths : ApplyEntry(p)
    \/ \E p \in Paths : Record(p)
    \/ \E p \in Paths : Hang(p)
    \/ \E p \in Paths : Collect(p)
    \/ Finish
    \/ Interrupt
    \/ Abort

(* Weak fairness of Acquire(p), with ENABLED <<Acquire(p)>>_vars written   *)
(* out: the step is possible exactly while the task is at getfacl, and it  *)
(* always adds a call.                                                     *)
FairAcquire(p) ==
    []<>(task[p].pc # "acquire") \/ []<><<Acquire(p)>>_vars

(* A free worker thread takes the next work item; a command or a ledger    *)
(* operation that is not hung returns; the main thread takes the next      *)
(* completed future, leaves the loop when there is none left and leaves    *)
(* the with block when the workers have been joined.                       *)
FairLive ==
    /\ \A p \in Paths :
          /\ WF_vars(Begin(p))
          /\ WF_vars(MigrateOwnership(p))
          /\ FairAcquire(p)
          /\ WF_vars(ApplyEntry(p))
          /\ WF_vars(Record(p))
          /\ WF_vars(Collect(p))
    /\ WF_vars(Finish)
    /\ WF_vars(Abort)

(* The initial states of Spec without a domain or with one that no entry   *)
(* is well formed with: the two ways a task goes through the apply step.   *)
InitLive == Init /\ cfg.domain \in {NoDomain, bad_domain}

SpecLive == InitLive /\ [][NextLive]_vars /\ FairLive

(* The same with AclSets that differ in the entries get_posix_acl keeps    *)
(* apart from the named ones: the owner, the owning group, the mask and    *)
(* other.  One named user has the name of an owner.                        *)
root == <<"r", "o", "o", "t">>

BaseEntryChoices ==
    {AclEntry(mary, Perm(TRUE, TRUE, TRUE)), AclEntry(root, Perm(TRUE, FALSE, TRUE)),
     AclEntry(dev1, Perm(FALSE, FALSE, FALSE))}

BaseLists == UNION {[1..n -> BaseEntryChoices] : n \in 0..MaxNamed}

BaseChoices ==
    [owner : {AclEntry(root, Perm(TRUE, TRUE, TRUE)), AclEntry(mary, Perm(TRUE, TRUE, FALSE))},
     group_owner : {AclEntry(root, Perm(TRUE, FALSE, FALSE)),
                    AclEntry(dev1, Perm(TRUE, TRUE, TRUE))},
     mask : {Perm(TRUE, TRUE, TRUE), Perm(TRUE, FALSE, FALSE)},
     other : {Perm(FALSE, FALSE, FALSE), Perm(TRUE, FALSE, TRUE)}]

(* acl_entries with the named entries of a and the other entries of base. *)
WithBase(a, base) ==
    [owner |-> base.owner, group_owner |-> base.group_owner,
     user |-> a.user, group |-> a.group, mask |-> base.mask, other |-> base.other]

BaseAclChoices == {WithBase(a, base) : a \in AclSetsOf(BaseLists), base \in BaseChoices}

InitBase == InitTranslation(BaseAclChoices, {NoDomain, example_com}, {"file"})

SpecBase == InitBase /\ [][NextConvert]_vars

-----------------------------------------------------------------------------
(* Vocabulary of the properties. *)

IsSetfacl(c) == c.tool = "nfs4_setfacl"

IsChown(c) == c.tool = "chown"

IsGetfacl(c) == c.tool = "getfacl"

SetfaclCalls(p) == SelectSeq(calls[p], IsSetfacl)

ChownCalls(p) == SelectSeq(calls[p], IsChown)

GetfaclCalls(p) == SelectSeq(calls[p], IsGetfacl)

NoMutationCalls(cs) == \A i \in 1..Len(cs) : cs[i].tool \notin {"nfs4_setfacl", "chown"}

SomeFailed(cs) == \E i \in 1..Len(cs) : cs[i].res # "ok"

IsSkip(r) == IsOutcome(r) /\ r.success /\ r.message.text = MsgSkipped

(* The ledger holds a success row for p whose mtime is less than 0.001 s   *)
(* away from m.                                                             *)
SuccessRowNear(p, m) ==
    /\ ledger[p] # NoRow
    /\ ledger[p].status = "success"
    /\ ledger[p].mtime - m < SkipTolerance
    /\ m - ledger[p].mtime < SkipTolerance

(* This step is the start of the migrate_file_acl call of p. *)
Starts(p) == task[p].pc = "queued" /\ task'[p].pc # "queued"

(* The fields of a string split at ":". *)
RECURSIVE Split(_)
Split(str) ==
    LET j == FirstColon(str, 1)
    IN  IF j = 0
        THEN <<str>>
        ELSE <<SubSeq(str, 1, j - 1)>> \o Split(SubSeq(str, j + 1, Len(str)))

(* type:flags:principal:permissions with type A or D, flags empty, f or g, *)
(* and permissions drawn from rwaDxtTnNcy.                                  *)
WellFormed(acl) ==
    LET f == Split(acl)
    IN  /\ Len(f) = 4
        /\ f[1] \in {<<"A">>, <<"D">>}
        /\ f[2] \in {<<>>, <<"f">>, <<"g">>}
        /\ Range(f[4]) \subseteq Nfs4PermChars

AllWellFormed(acls) == \A i \in 1..Len(acls) : WellFormed(acls[i])

(* The workflow of p got as far as the record step. *)
ReachedRecord(p) == Finished(p) /\ GetfaclCalls(p) # <<>>

(* The workflow of p ended by one of its return statements of lines        *)
(* 451-460.                                                                 *)
Recorded(p) ==
    /\ Finished(p)
    /\ IsOutcome(task[p].result)
    /\ task[p].result.message.text \in {MsgMigrated, MsgNothing, MsgFailed}

AclStepOk(p) == ~SomeFailed(SetfaclCalls(p)) /\ AllWellFormed(task[p].nfs4_acls)

OwnershipStepOk(p) == ~SomeFailed(ChownCalls(p))

-----------------------------------------------------------------------------
(* C1, as stated: in incremental mode, a path whose ledger row says        *)
(* success at an mtime less than 0.001 s away from its current one is      *)
(* skipped by migrate_file_acl, and no nfs4_setfacl or chown is issued.    *)
C1_SkipsWhenSuccessRow ==
    [][\A p \in Paths :
         (Starts(p) /\ cfg.incremental /\ SuccessRowNear(p, mtime[p]))
         => /\ IsSkip(task'[p].result)
            /\ NoMutationCalls(calls'[p])]_vars

(* C1, amended: under the same condition migrate_file_acl returns at once  *)
(* with no command issued; the outcome it returns is a skip when the       *)
(* destination exists and the ledger can be read, the destination-missing  *)
(* failure when it does not exist, and the failure by exception when the   *)
(* ledger cannot be read.                                                   *)
C1_SkipsWhenSuccessRowAndDestExists ==
    [][\A p \in Paths :
         (Starts(p) /\ cfg.incremental /\ SuccessRowNear(p, mtime[p]))
         => /\ task'[p].pc = "done"
            /\ calls'[p] = <<>>
            /\ IsOutcome(task'[p].result)
            /\ IF ~dstExists[p]
               THEN task'[p].result.message.text = MsgDestMissing
               ELSE \/ IsSkip(task'[p].result)
                    \/ task'[p].result.message.text = MsgDbError]_vars

(* C1, witness: a path was skipped although its mtime is not the stored    *)
(* one.                                                                     *)
C1_Witness ==
    \E p \in Paths :
       /\ Finished(p)
       /\ IsSkip(task[p].result)
       /\ ledger[p].mtime # mtime[p]
       /\ calls[p] = <<>>

(* C2, as stated: when getfacl fails for a path, the outcome of the path   *)
(* is failed and the row written for it has status "failed".               *)
C2_AcquisitionFailureIsFailed ==
    \A p \in Paths :
       (Recorded(p) /\ SomeFailed(GetfaclCalls(p)))
       => /\ ~task[p].result.success
          /\ ledger[p] # NoRow
          /\ ledger[p].status = "failed"

(* C3, as stated: every attempt that is not skipped ends with a ledger row *)
(* for its path whose status is the status of the attempt.                 *)
C3_EveryAttemptRecorded ==
    \A p \in Paths :
       (Finished(p) /\ ~IsSkip(task[p].result))
       => /\ ledger[p] # NoRow
          /\ ledger[p].status = (IF task[p].result.success THEN "success" ELSE "failed")

(* C3, amended: every attempt that finds its destination, is not skipped   *)
(* and raises no exception ends with a ledger row for its path that holds  *)
(* the status of the attempt, the mtime it read and its destination.       *)
C3_RecordedAttemptHasRow ==
    \A p \in Paths :
       Recorded(p)
       => /\ ledger[p] # NoRow
          /\ ledger[p].status = (IF task[p].result.success THEN "success" ELSE "failed")
          /\ ledger[p].mtime = task[p].source_mtime
          /\ ledger[p].dest_path = DestPath(p)

(* C3, witness: a failed attempt and a successful one, both recorded. *)
C3_Witness ==
    /\ mode = "dir"
    /\ Recorded("f1") /\ ~task["f1"].result.success /\ ledger["f1"].status = "failed"
    /\ Recorded("f2") /\ task["f2"].result.success /\ ledger["f2"].status = "success"

(* C4, as stated: once the interrupt has reached the loop of migrate, no   *)
(* task that had not started is started.                                   *)
C4_NoStartAfterInterrupt == \A p \in Paths : ~task[p].late

(* C5: every task ends with an outcome of its own path, never with an      *)
(* exception; a task that raised (the ledger could not be written) has a   *)
(* failed outcome carrying the exception text; and a run that ends has     *)
(* collected and counted one outcome per scanned path.                     *)
C5_FailureIsolation ==
    /\ \A p \in Paths :
          Finished(p) => IsOutcome(task[p].result) /\ task[p].result.path = p
    /\ \A p \in Paths :
          (ReachedRecord(p) /\ ~Recorded(p))
          => ~task[p].result.success /\ task[p].result.message.text = MsgDbError
    /\ phase = "finished"
       => /\ \A p \in Range(files) : task[p].pc = "collected"
          /\ stats.success + stats.failed + stats.skipped + stats.no_acl = Len(files)
          /\ stats.total_files = Len(files)

(* C5, witness: a run ended in which one path failed by exception and the  *)
(* other succeeded.                                                         *)
C5_Witness ==
    /\ phase = "finished"
    /\ mode = "dir"
    /\ task["f1"].result.message.text = MsgDbError
    /\ ~task["f1"].result.success
    /\ task["f2"].result.success
    /\ stats.failed = 1 /\ stats.success = 1

(* C6: for a list of well-formed entries, the nfs4_setfacl commands issued *)
(* are the entries of the list in order, up to and including the first     *)
(* that fails; the step fails iff one failed; the entries applied stay.    *)
C6_AppliesPrefix ==
    \A p \in Paths :
       (task[p].pc \in {"apply", "record"} /\ AllWellFormed(task[p].nfs4_acls))
       => LET cs == SetfaclCalls(p)
              acls == task[p].nfs4_acls
          IN  /\ Len(cs) <= Len(acls)
              /\ \A i \in 1..Len(cs) :
                    /\ cs[i].arg = acls[i]
                    /\ cs[i].path = DestPath(p)
                    /\ i < Len(cs) => cs[i].res = "ok"
                    /\ cs[i].res = "ok" => acls[i] \in dstAcl[p]
              /\ dstAcl[p] = {cs[i].arg : i \in {k \in 1..Len(cs) : cs[k].res = "ok"}}
              /\ task[p].pc = "apply" => ~SomeFailed(cs) /\ task[p].idx = Len(cs) + 1
              /\ task[p].pc = "record"
                 => /\ task[p].acl_success <=> ~SomeFailed(cs)
                    /\ task[p].acl_success => Len(cs) = Len(acls)

(* C6, witness: of three entries the second failed, the first is applied   *)
(* and the third was not attempted.                                         *)
C6_Witness ==
    /\ task["f1"].pc = "record"
    /\ AllWellFormed(task["f1"].nfs4_acls)
    /\ Len(task["f1"].nfs4_acls) = 3
    /\ Len(SetfaclCalls("f1")) = 2
    /\ SetfaclCalls("f1")[1].res = "ok"
    /\ SetfaclCalls("f1")[2].res = "fail"
    /\ dstAcl["f1"] = {task["f1"].nfs4_acls[1]}
    /\ ~task["f1"].acl_success

(* C7: a list with an entry that is not well-formed makes apply_nfs4_acl   *)
(* fail with no nfs4_setfacl issued, whatever precedes the entry.          *)
C7_InvalidEntryAbortsApply ==
    \A p \in Paths :
       (task[p].pc \in {"apply", "record"} /\ ~AllWellFormed(task[p].nfs4_acls))
       => /\ task[p].pc = "record"
          /\ ~task[p].acl_success
          /\ SetfaclCalls(p) = <<>>
          /\ dstAcl[p] = {}

(* C7, witness: the step failed on a list whose first entry is well-formed *)
(* and whose second is not.                                                 *)
C7_Witness ==
    /\ task["f1"].pc = "record"
    /\ Len(task["f1"].nfs4_acls) >= 2
    /\ WellFormed(task["f1"].nfs4_acls[1])
    /\ ~WellFormed(task["f1"].nfs4_acls[2])
    /\ ~task["f1"].acl_success
    /\ calls["f1"] = <<>>

(* C8, as stated: the outcome of an attempt that ran its steps is success  *)
(* iff no nfs4_setfacl failed, no entry was rejected and, with ownership   *)
(* migration on, no chown failed; no chown is issued with ownership        *)
(* migration off; and the ACL step follows a failed chown.                 *)
C8_SuccessIffEnabledStepsSucceeded ==
    \A p \in Paths :
       /\ ReachedRecord(p)
          => (task[p].result.success
              <=> (AclStepOk(p) /\ (cfg.migrate_ownership => OwnershipStepOk(p))))
       /\ ~cfg.migrate_ownership => ChownCalls(p) = <<>>
       /\ SomeFailed(ChownCalls(p))
          => (task[p].pc = "acquire" \/ GetfaclCalls(p) # <<>>)

(* C8, amended: the equivalence holds for the attempts that wrote their    *)
(* ledger row; an attempt whose ledger write raised is failed whatever its *)
(* steps did.  No chown is issued with ownership migration off, and after  *)
(* a failed chown getfacl is run and every entry it leads to is applied.   *)
C8_SuccessIffStepsSucceededAndRecorded ==
    \A p \in Paths :
       /\ Recorded(p)
          => (task[p].result.success
              <=> (AclStepOk(p) /\ (cfg.migrate_ownership => OwnershipStepOk(p))))
       /\ (ReachedRecord(p) /\ ~Recorded(p))
          => ~task[p].result.success /\ task[p].result.message.text = MsgDbError
       /\ ~cfg.migrate_ownership => ChownCalls(p) = <<>>
       /\ SomeFailed(ChownCalls(p))
          => (task[p].pc = "acquire" \/ GetfaclCalls(p) # <<>>)
       /\ (Finished(p) /\ SomeFailed(ChownCalls(p)) /\ ~SomeFailed(GetfaclCalls(p))
             /\ task[p].nfs4_acls # <<>> /\ AllWellFormed(task[p].nfs4_acls))
          => SetfaclCalls(p) # <<>>

(* C8, witness: with ownership migration on the chown failed, every entry  *)
(* was applied all the same, and the outcome and the row are failed.       *)
C8_Witness ==
    \E p \in Paths :
       /\ Recorded(p)
       /\ cfg.migrate_ownership
       /\ SomeFailed(ChownCalls(p))
       /\ SetfaclCalls(p) # <<>>
       /\ Len(SetfaclCalls(p)) = Len(task[p].nfs4_acls)
       /\ ~SomeFailed(SetfaclCalls(p))
       /\ ~task[p].result.success
       /\ ledger[p].status = "failed"

C10_AlreadyMigratedIff ==
    \A p \in Paths :
       /\ \A m \in MTimes :
             _is_already_migrated(p, m) <=> (cfg.incremental /\ SuccessRowNear(p, m))
       /\ (ledger[p] # NoRow /\ ledger[p].status = "success")
          => ~_is_already_migrated(p, ledger[p].mtime + OneSecond)
       /\ ~cfg.incremental
          => /\ \A m \in MTimes : ~_is_already_migrated(p, m)
             /\ Finished(p) => ~IsSkip(task[p].result)
       /\ (Finished(p) /\ IsSkip(task[p].result))
          => cfg.incremental /\ SuccessRowNear(p, mtime[p])
       /\ Running(p) => ~(cfg.incremental /\ SuccessRowNear(p, mtime[p]))

(* C10, witness: in incremental mode a path with a success row at M and    *)
(* the mtime M + 1.0 is being migrated again.                               *)
C10_Witness ==
    \E p \in Paths :
       /\ cfg.incremental
       /\ Running(p)
       /\ ledger[p] # NoRow
       /\ ledger[p].status = "success"
       /\ mtime[p] = ledger[p].mtime + OneSecond

(* C11: every nfs4_setfacl command issued is the add form, and no step     *)
(* other than the removal of the destination entry itself takes an entry   *)
(* off a destination: the entries of a destination only grow, over the     *)
(* tasks of a run and from one run to the next.                             *)
C11_AdditiveApplication ==
    [][\A p \in Paths :
         /\ \A i \in 1..Len(calls'[p]) :
               IsSetfacl(calls'[p][i]) => calls'[p][i].opt = "-a"
         /\ dstExists'[p] = dstExists[p] => dstAcl[p] \subseteq dstAcl'[p]]_vars

(* C11, witness: in a second run on a destination that holds two entries   *)
(* the first entry was applied again and the second failed; the            *)
(* destination holds both.                                                  *)
C11_Witness ==
    \E p \in Paths :
       /\ task[p].pc = "record"
       /\ ledger[p] # NoRow
       /\ Len(SetfaclCalls(p)) = 2
       /\ SetfaclCalls(p)[1].res = "ok"
       /\ SetfaclCalls(p)[2].res = "fail"
       /\ dstAcl[p] = {task[p].nfs4_acls[1], task[p].nfs4_acls[2]}

(* The ACL step of p has been attempted: getfacl was run and then the      *)
(* entries it led to were applied up to the first failure, or rejected.    *)
AclStepAttempted(p) ==
    /\ GetfaclCalls(p) # <<>>
    /\ \/ SomeFailed(GetfaclCalls(p))
       \/ ~AllWellFormed(task[p].nfs4_acls)
       \/ SomeFailed(SetfaclCalls(p))
       \/ Len(SetfaclCalls(p)) = Len(task[p].nfs4_acls)

(* The ownership step of p has been attempted: chown was run unless the    *)
(* owners matched.                                                          *)
OwnershipStepAttempted(p) ==
    \/ ChownCalls(p) # <<>>
    \/ (srcOwner[p].uid = dstOwner[p].uid /\ srcOwner[p].gid = dstOwner[p].gid)

(* C12, as stated: getfacl is run on the source before any chown or        *)
(* nfs4_setfacl is run on the destination.                                  *)
C12_AcquiredBeforeAnyMutation ==
    \A p \in Paths :
       \A i \in 1..Len(calls[p]) :
          calls[p][i].tool \in {"chown", "nfs4_setfacl"}
          => \E j \in 1..(i - 1) : IsGetfacl(calls[p][j])

(* C12, amended: the commands of a path are an optional chown (only with   *)
(* ownership migration on), then one getfacl, then the nfs4_setfacl        *)
(* commands, whose entries are the translation of what getfacl returned;   *)
(* and a ledger row is written only after the ACL step and, with ownership *)
(* migration on, the ownership step have been attempted.                   *)
C12_OwnershipThenAcquireThenApplyThenRecord ==
    [][\A p \in Paths :
         /\ \A i \in 1..Len(calls'[p]) :
               /\ IsChown(calls'[p][i]) => (i = 1 /\ cfg'.migrate_ownership)
               /\ IsGetfacl(calls'[p][i])
                  => (i = 1 \/ (i = 2 /\ IsChown(calls'[p][1])))
               /\ IsSetfacl(calls'[p][i])
                  => /\ \E j \in 1..(i - 1) :
                           IsGetfacl(calls'[p][j]) /\ calls'[p][j].res = "ok"
                     /\ task'[p].nfs4_acls =
                           convert_posix_to_nfs4(srcAcl[p], isdir(p), cfg.domain)
                     /\ calls'[p][i].arg \in Range(task'[p].nfs4_acls)
         /\ (ledger'[p] # ledger[p] /\ ledger'[p] # NoRow)
            => /\ AclStepAttempted(p)
               /\ cfg.migrate_ownership => OwnershipStepAttempted(p)]_vars

(* C12, witness: a path was recorded after a chown, a getfacl and two      *)
(* nfs4_setfacl commands, issued in this order.                             *)
C12_Witness ==
    \E p \in Paths :
       /\ Recorded(p)
       /\ Len(calls[p]) = 4
       /\ IsChown(calls[p][1])
       /\ IsGetfacl(calls[p][2])
       /\ IsSetfacl(calls[p][3])
       /\ IsSetfacl(calls[p][4])
       /\ ledger[p] # NoRow

(* The sequences that hold the elements of s in another order. *)
Reordered(s) ==
    {[i \in 1..Len(s) |-> s[f[i]]] :
        f \in {g \in [1..Len(s) -> 1..Len(s)] : \A i, j \in 1..Len(s) : g[i] = g[j] => i = j}}

(* The AclSets that differ from a in the order of the named entries only. *)
SameEntries(a) ==
    {[a EXCEPT !.user = u, !.group = g] : u \in Reordered(a.user), g \in Reordered(a.group)}

(* C13, as stated: the fingerprint in the row of a path whose ACL was      *)
(* acquired is the fingerprint of every AclSet that holds the same entries *)
(* in another order, whether the row says success or failed.               *)
C13_FingerprintOrderIndependent ==
    \A p \in Paths :
       (Recorded(p) /\ ~SomeFailed(GetfaclCalls(p)))
       => \A b \in SameEntries(task[p].posix_acl) : ledger[p].acl_hash = AclHash(b)

(* C14: migrate_file_acl called for a path whose destination does not     *)
(* exist returns the destination-missing failure at once, with no getfacl, *)
(* nfs4_setfacl or chown issued, no ledger row written and the destination *)
(* still missing.                                                           *)
C14_DestMissingFailsImmediately ==
    [][\A p \in Paths :
         /\ (Starts(p) /\ ~dstExists[p])
            => /\ task'[p].pc = "done"
               /\ task'[p].result = Outcome(p, FALSE, Message(MsgDestMissing, <<>>, 0))
               /\ calls'[p] = <<>>
               /\ ledger' = ledger
         /\ (task'[p].pc # "none" /\ ~dstExists[p])
            => (calls'[p] = <<>> /\ ~dstExists'[p])]_vars

(* C14, witness: with ownership migration on, a path that an earlier run   *)
(* recorded failed on its missing destination.                             *)
C14_Witness ==
    \E p \in Paths :
       /\ Finished(p)
       /\ ~dstExists[p]
       /\ cfg.migrate_ownership
       /\ ledger[p] # NoRow
       /\ task[p].result = Outcome(p, FALSE, Message(MsgDestMissing, <<>>, 0))
       /\ calls[p] = <<>>

-----------------------------------------------------------------------------
(* Vocabulary of the properties of the translation. *)

(* get_posix_acl succeeded for p and its result has been translated. *)
Translated(p) == task[p].pc \in {"apply", "record", "done"} /\ task[p].posix_acl # NoAcl

(* The named entries of an AclSet, users then groups, each with the flag   *)
(* of its kind.                                                             *)
NamedSource(a) ==
    [i \in 1..(Len(a.user) + Len(a.group)) |->
        IF i <= Len(a.user)
        THEN [name |-> a.user[i].name, perms |-> a.user[i].perms, flag |-> <<>>]
        ELSE [name |-> a.group[i - Len(a.user)].name,
              perms |-> a.group[i - Len(a.user)].perms, flag |-> <<"g">>]]

NotDash(c) == c # "-"

(* The flags present in a permission triple, in the order r, w, x. *)
MappedPerms(perms) == SelectSeq(perms, NotDash)

(* Non-empty, not purely numeric, made of letters, digits, "_" and "-". *)
NameOk(n) ==
    /\ n # <<>>
    /\ \E i \in 1..Len(n) : n[i] \notin Digits
    /\ \A i \in 1..Len(n) : n[i] \in AsciiLetters \cup Digits \cup {"_", "-"}

Kept(e) == NameOk(e.name) /\ MappedPerms(e.perms) # <<>>

(* type A, the flag, the name with @domain iff a domain is set, the        *)
(* mapped permission.                                                       *)
EntryFor(e, domain) ==
    <<"A", ":">> \o e.flag \o <<":">>
    \o (IF domain = NoDomain THEN e.name ELSE e.name \o <<"@">> \o domain)
    \o <<":">> \o MappedPerms(e.perms)

(* C15: the translation is the entries of the kept named entries, each in  *)
(* the place its source entry has among the users followed by the groups:  *)
(* an order-preserving subsequence, user entries before group entries.     *)
C15_TranslationKeepsOrder ==
    \A p \in Paths :
       Translated(p)
       => LET src == NamedSource(task[p].posix_acl)
              out == task[p].nfs4_acls
          IN  /\ \E f \in [1..Len(out) -> 1..Len(src)] :
                    /\ \A i, j \in 1..Len(out) : i < j => f[i] < f[j]
                    /\ \A i \in 1..Len(out) : out[i] = EntryFor(src[f[i]], cfg.domain)
                    /\ {f[i] : i \in 1..Len(out)} = {k \in 1..Len(src) : Kept(src[k])}
              /\ \A i, j \in 1..Len(out) :
                    (i < j /\ Split(out[i])[2] = <<"g">>) => Split(out[j])[2] = <<"g">>

(* C15, witness: of two users and a group the second user was dropped; the *)
(* entry of the first user is followed by the entry of the group.          *)
C15_Witness ==
    /\ Translated("f1")
    /\ Len(task["f1"].posix_acl.user) = 2
    /\ Len(task["f1"].posix_acl.group) = 1
    /\ Kept(NamedSource(task["f1"].posix_acl)[1])
    /\ ~Kept(NamedSource(task["f1"].posix_acl)[2])
    /\ Kept(NamedSource(task["f1"].posix_acl)[3])
    /\ Len(task["f1"].nfs4_acls) = 2
    /\ Split(task["f1"].nfs4_acls[1])[2] = <<>>
    /\ Split(task["f1"].nfs4_acls[2])[2] = <<"g">>

(* C16: every entry the translation emits is the entry of a kept named     *)
(* entry, and every kept named entry has its entry emitted: type A, an     *)
(* empty flag for a user and g for a group, the name followed by @domain   *)
(* iff a domain is set, the mapped permission.  User mary rwx with domain  *)
(* example.com gives A::mary@example.com:rwx; group dev1 r-- with no       *)
(* domain gives A:g:dev1:r.                                                 *)
C16_EmittedEntryShape ==
    \A p \in Paths :
       Translated(p)
       => LET a == task[p].posix_acl
              src == NamedSource(a)
              out == task[p].nfs4_acls
          IN  /\ \A k \in 1..Len(src) :
                    Kept(src[k])
                    => \E i \in 1..Len(out) :
                          /\ out[i] = EntryFor(src[k], cfg.domain)
                          /\ Split(out[i])[1] = <<"A">>
                          /\ Split(out[i])[2] = (IF k <= Len(a.user) THEN <<>> ELSE <<"g">>)
                          /\ Split(out[i])[3] =
                                (IF cfg.domain = NoDomain THEN src[k].name
                                 ELSE src[k].name \o <<"@">> \o cfg.domain)
                          /\ Split(out[i])[4] = MappedPerms(src[k].perms)
              /\ \A i \in 1..Len(out) :
                    \E k \in 1..Len(src) :
                       Kept(src[k]) /\ out[i] = EntryFor(src[k], cfg.domain)
              /\ (a.user = <<AclEntry(mary, Perm(TRUE, TRUE, TRUE))>> /\ a.group = <<>>
                    /\ cfg.domain = example_com)
                 => out = << <<"A", ":", ":", "m", "a", "r", "y", "@", "e", "x", "a", "m", "p", "l", "e", ".", "c", "o", "m", ":", "r", "w", "x">> >>
              /\ (a.user = <<>> /\ a.group = <<AclEntry(dev1, Perm(TRUE, FALSE, FALSE))>>
                    /\ cfg.domain = NoDomain)
                 => out = << <<"A", ":", "g", ":", "d", "e", "v", "1", ":", "r">> >>

(* C16, witness: with the domain example.com, user mary rwx and group dev1 *)
(* r-- were translated.                                                     *)
C16_Witness ==
    /\ Translated("f1")
    /\ cfg.domain = example_com
    /\ task["f1"].posix_acl.user = <<AclEntry(mary, Perm(TRUE, TRUE, TRUE))>>
    /\ task["f1"].posix_acl.group = <<AclEntry(dev1, Perm(TRUE, FALSE, FALSE))>>
    /\ task["f1"].nfs4_acls = << <<"A", ":", ":", "m", "a", "r", "y", "@", "e", "x", "a", "m", "p", "l", "e", ".", "c", "o", "m", ":", "r", "w", "x">>,
                                 <<"A", ":", "g", ":", "d", "e", "v", "1", "@", "e", "x", "a", "m", "p", "l", "e", ".", "c", "o", "m", ":", "r">> >>

(* C17: for every permission triple of the acquired entries and for both   *)
(* values of the directory flag, the mapper returns the flags present in   *)
(* the triple in the order r, w, x: no flag the triple lacks, nothing for  *)
(* "---"; and the permission field of every emitted entry is that string,  *)
(* for a file and for a directory alike.                                    *)
C17_PermissionMapper ==
    \A p \in Paths :
       Translated(p)
       => LET src == NamedSource(task[p].posix_acl)
              out == task[p].nfs4_acls
          IN  /\ \A k \in 1..Len(src), d \in BOOLEAN :
                    LET m == posix_to_nfs4_perms(src[k].perms, d)
                    IN  /\ m = MappedPerms(src[k].perms)
                        /\ Range(m) \subseteq Range(src[k].perms) \ {"-"}
                        /\ \A c \in {"r", "w", "x"} : c \in Range(src[k].perms) => c \in Range(m)
                        /\ src[k].perms = <<"-", "-", "-">> => m = EmptyStr
              /\ \A k \in 1..Len(src) :
                    NameOk(src[k].name)
                    => IF src[k].perms = <<"-", "-", "-">>
                       THEN \A i \in 1..Len(out) :
                               Split(out[i])[3] # Split(EntryFor(src[k], cfg.domain))[3]
                                  \/ Split(out[i])[4] # <<>>
                       ELSE \E i \in 1..Len(out) :
                               /\ Split(out[i])[3] = Split(EntryFor(src[k], cfg.domain))[3]
                               /\ Split(out[i])[4] = MappedPerms(src[k].perms)
              /\ \A i \in 1..Len(out) :
                    Split(out[i])[4] \in {MappedPerms(q) : q \in PosixPerms} \ {<<>>}

(* C17, witness: the source entry is a directory and its user mary rw- was *)
(* translated to the permission rw.                                         *)
C17_Witness ==
    /\ Translated("f1")
    /\ isdir("f1")
    /\ task["f1"].posix_acl.user = <<AclEntry(mary, Perm(TRUE, TRUE, FALSE))>>
    /\ Len(task["f1"].nfs4_acls) >= 1
    /\ Split(task["f1"].nfs4_acls[1])[4] = <<"r", "w">>

(* C18: a named entry is translated only if its name is non-empty, not     *)
(* purely numeric and made of letters, digits, "_" and "-": the entries    *)
(* emitted are as many as the kept named entries, none carries the name of *)
(* an entry with another kind of name, every kept entry of the same source *)
(* is emitted, and a migration none of whose commands failed succeeds.     *)
(* User 1001 rw- alone gives no entry.                                      *)
C18_InvalidNameDropped ==
    \A p \in Paths :
       Translated(p)
       => LET a == task[p].posix_acl
              src == NamedSource(a)
              out == task[p].nfs4_acls
          IN  /\ Len(out) = Cardinality({k \in 1..Len(src) : Kept(src[k])})
              /\ \A k \in 1..Len(src) :
                    ~NameOk(src[k].name)
                    => \A i \in 1..Len(out) :
                          Split(out[i])[3] # Split(EntryFor(src[k], cfg.domain))[3]
              /\ \A k \in 1..Len(src) :
                    Kept(src[k]) => EntryFor(src[k], cfg.domain) \in Range(out)
              /\ (a.user = <<AclEntry(n1001, Perm(TRUE, TRUE, FALSE))>> /\ a.group = <<>>)
                 => out = <<>>
              /\ (Recorded(p) /\ ~SomeFailed(calls[p]))
                 => /\ task[p].result.success
                    /\ ledger[p].status = "success"
                    /\ dstAcl[p] = Range(out)

(* C18, witness: user 1001 rw- was dropped, user mary rwx of the same      *)
(* source was applied and the migration succeeded.                         *)
C18_Witness ==
    /\ Recorded("f1")
    /\ Translated("f1")
    /\ task["f1"].posix_acl.user = <<AclEntry(n1001, Perm(TRUE, TRUE, FALSE)),
                                     AclEntry(mary, Perm(TRUE, TRUE, TRUE))>>
    /\ Len(task["f1"].nfs4_acls) = 1
    /\ dstAcl["f1"] = {EntryFor(NamedSource(task["f1"].posix_acl)[2], cfg.domain)}
    /\ task["f1"].result.success

(* C19: never more tasks run than workers are configured; while a run is   *)
(* on, the work list is the whole scan, without repetition, every path of  *)
(* it has one task and no other path has one; and when the first task      *)
(* starts the whole list has been scanned and submitted.                   *)
C19_BoundedConcurrency ==
    [][/\ Cardinality({p \in Paths : Running(p)'}) <= cfg'.workers
       /\ phase' # "idle"
          => /\ files' = scan_files(mode', tree')
             /\ \A i, j \in 1..Len(files') : files'[i] = files'[j] => i = j
             /\ stats'.total_files = Len(files')
             /\ \A p \in Paths : (p \in Range(files')) <=> (task'[p].pc # "none")
       /\ \A p \in Paths :
             Starts(p)
             => /\ files = scan_files(mode, tree)
                /\ \A q \in Range(scan_files(mode, tree)) : task[q].pc # "none"
                /\ files' = files]_vars

(* C19, witness: with one worker the first path is running and the second  *)
(* waits in the queue.                                                      *)
C19_Witness ==
    /\ mode = "dir"
    /\ cfg.workers = 1
    /\ Running("f1")
    /\ task["f2"].pc = "queued"

(* The row a finished task wrote, or would have written. *)
OwnRow(p) ==
    Row(DestPath(p), task[p].source_mtime, AclHash(task[p].posix_acl),
        IF task[p].result.success THEN "success" ELSE "failed")

AllFinished == phase # "idle" /\ \A p \in Range(files) : Finished(p)

(* C20, as stated: once all the tasks of a run have finished, the ledger   *)
(* holds, for every path whose task reached the record step, the row of    *)
(* that task.                                                               *)
C20_EveryRecordStepHasItsRow ==
    AllFinished => \A p \in Range(files) : ReachedRecord(p) => ledger[p] = OwnRow(p)

(* C20, amended: once all the tasks of a run have finished, the ledger     *)
(* holds the row of every task whose ledger write did not raise; a write   *)
(* changes the row of its own path only, and a write that raises changes   *)
(* no row.                                                                  *)
C20_CompletedWritesKeepTheirRows ==
    [][/\ AllFinished' => \A p \in Range(files') : Recorded(p)' => ledger'[p] = OwnRow(p)'
       /\ \A p \in Paths :
             (ledger'[p] # ledger[p] /\ ledger'[p] # NoRow)
             => /\ task[p].pc = "record"
                /\ Recorded(p)'
                /\ \A q \in Paths \ {p} : ledger'[q] = ledger[q]
       /\ \A p \in Paths :
             (task[p].pc = "record" /\ Finished(p)' /\ ~Recorded(p)') => ledger' = ledger]_vars

(* C20, witness: two workers, both tasks wrote their rows, and the run     *)
(* ended with both rows in the ledger.                                      *)
C20_Witness ==
    /\ mode = "dir"
    /\ cfg.workers = 2
    /\ phase = "finished"
    /\ Recorded("f1") /\ ledger["f1"] = OwnRow("f1")
    /\ Recorded("f2") /\ ledger["f2"] = OwnRow("f2")
    /\ ledger["f1"].status # ledger["f2"].status

-----------------------------------------------------------------------------
(* C21: the ledger holds one row per source path at most: a write for a    *)
(* path that has a row leaves that path with the one row written, and no   *)
(* other path's row changes.  A row is written, for the first time or over *)
(* an earlier one, only by the record step of the task of its own path.    *)
(* Rows are removed only by reset_database, between two runs, and it       *)
(* removes them all; in the run that follows it no path is skipped,        *)
(* incremental or not.                                                      *)
C21_LedgerLifecycle ==
    [][/\ \A p \in Paths :
             /\ (ledger'[p] # ledger[p] /\ ledger'[p] # NoRow)
                => /\ task[p].pc = "record"
                   /\ Recorded(p)'
                   /\ ledger'[p] = OwnRow(p)'
                   /\ \A q \in Paths \ {p} : ledger'[q] = ledger[q]
             /\ (ledger[p] # NoRow /\ ledger'[p] = NoRow)
                => /\ Stopped /\ Stopped'
                   /\ wiped'
                   /\ \A q \in Paths : ledger'[q] = NoRow
       /\ wiped'
          => /\ Stopped' => \A q \in Paths : ledger'[q] = NoRow
             /\ \A q \in Paths : ~IsSkip(task'[q].result)]_vars

(* C21, witness: f1 had a row when its source was modified by less than    *)
(* the tolerance; the ledger was reset, and the incremental run that       *)
(* followed migrated f1 again and wrote its row.                           *)
C21_Witness ==
    /\ wiped
    /\ phase = "finished"
    /\ cfg.incremental
    /\ mtime["f1"] = OneSecond + 1
    /\ Recorded("f1")
    /\ task["f1"].result.success
    /\ ledger["f1"] = OwnRow("f1")

-----------------------------------------------------------------------------
(* C22: the entries emitted for an acquired AclSet are those emitted for   *)
(* every AclSet with the same named users and groups, in the same order,   *)
(* whatever its owner, owning group, mask and other are; each of them is   *)
(* the entry of one named entry of its own, so none stands for the owner,  *)
(* the owning group, the mask or other.                                    *)
C22_OnlyNamedEntriesTranslated ==
    \A p \in Paths :
       Translated(p)
       => LET a == task[p].posix_acl
              out == task[p].nfs4_acls
              src == NamedSource(a)
          IN  /\ \A base \in BaseChoices :
                    convert_posix_to_nfs4(WithBase(a, base), isdir(p), cfg.domain) = out
              /\ \E f \in [1..Len(out) -> 1..Len(src)] :
                    /\ \A i, j \in 1..Len(out) : i # j => f[i] # f[j]
                    /\ \A i \in 1..Len(out) : out[i] = EntryFor(src[f[i]], cfg.domain)

(* C22, witness: the owner is mary with rw-, the owning group dev1 with    *)
(* rwx, other has r-x; the named user root, who has the name of no owner   *)
(* here, is the only named entry and the only entry emitted.               *)
C22_Witness ==
    /\ Translated("f1")
    /\ task["f1"].posix_acl.owner = AclEntry(mary, Perm(TRUE, TRUE, FALSE))
    /\ task["f1"].posix_acl.group_owner = AclEntry(dev1, Perm(TRUE, TRUE, TRUE))
    /\ task["f1"].posix_acl.other = Perm(TRUE, FALSE, TRUE)
    /\ task["f1"].posix_acl.mask = Perm(TRUE, FALSE, FALSE)
    /\ task["f1"].posix_acl.user = <<AclEntry(root, Perm(TRUE, FALSE, TRUE))>>
    /\ task["f1"].posix_acl.group = <<>>
    /\ cfg.domain = NoDomain
    /\ task["f1"].nfs4_acls = << <<"A", ":", ":", "r", "o", "o", "t", ":", "r", "x">> >>

-----------------------------------------------------------------------------
(* C23: the ownership step of a task issues no command and succeeds when   *)
(* the uid and the gid of the destination are those of the source; else it *)
(* issues one chown of the destination to the owner and group of the       *)
(* source, and fails iff that command fails.  It is the only step that     *)
(* issues a chown, so a task issues one at most.                           *)
C23_OwnershipStep ==
    [][\A p \in Paths :
          /\ (task[p].pc = "own" /\ task'[p].pc # "own")
             => IF srcOwner[p].uid = dstOwner[p].uid /\ srcOwner[p].gid = dstOwner[p].gid
                THEN /\ calls' = calls
                     /\ dstOwner' = dstOwner
                     /\ task'[p].ownership_success
                ELSE /\ Len(calls'[p]) = Len(calls[p]) + 1
                     /\ SubSeq(calls'[p], 1, Len(calls[p])) = calls[p]
                     /\ \A q \in Paths \ {p} : calls'[q] = calls[q]
                     /\ LET c == calls'[p][Len(calls'[p])]
                        IN  /\ c.tool = "chown"
                            /\ c.path = DestPath(p)
                            /\ c.arg = srcOwner[p]
                            /\ task'[p].ownership_success <=> c.res = "ok"
                            /\ ~task'[p].ownership_success <=> c.res # "ok"
          /\ Len(ChownCalls(p)') > Len(ChownCalls(p)) => task[p].pc = "own"
          /\ Len(ChownCalls(p)') <= 1]_vars

(* C23, witness: a run with ownership migration found the owner and the    *)
(* group of the destination of f1 equal to those of the source, which an   *)
(* earlier run had set: the task went on to the ACL without any chown.     *)
C23_Witness ==
    /\ cfg.migrate_ownership
    /\ srcOwner["f1"] = dstOwner["f1"]
    /\ GetfaclCalls("f1") # <<>>
    /\ ChownCalls("f1") = <<>>
    /\ task["f1"].ownership_success

-----------------------------------------------------------------------------
(* C24: in directory mode the list of the scan holds every entry of the    *)
(* source tree, directory or file, once, and each has a task of its own.   *)
(* The task of an entry, a directory with entries of its own included,     *)
(* reads the ACL of that entry alone and runs chown and nfs4_setfacl on    *)
(* the destination of that entry alone: the owner and the ACL of every     *)
(* other destination stay as they were, and what it acquired, applied and  *)
(* set is the ACL and the owner of the entry itself.                       *)
C24_TreeWalk ==
    phase = "running"
    => /\ Range(files) = DOMAIN tree.kind
       /\ Len(files) = Cardinality(DOMAIN tree.kind)
       /\ \A p \in AllEntries : (task[p].pc # "none") <=> (p \in DOMAIN tree.kind)
       /\ \A p \in AllEntries :
             /\ \A i \in 1..Len(calls[p]) :
                   calls[p][i].path = IF IsGetfacl(calls[p][i]) THEN p ELSE DestPath(p)
             /\ task[p].posix_acl \in {NoAcl, srcAcl[p]}
             /\ dstOwner[p] \in {Owner(0, 0), srcOwner[p]}
             /\ dstAcl[p] \subseteq Range(convert_posix_to_nfs4(srcAcl[p], isdir(p), cfg.domain))
             /\ calls[p] = <<>> => dstOwner[p] = Owner(0, 0) /\ dstAcl[p] = {}

(* C24, witness: source_dir holds the directory f1 and the file f4, f1     *)
(* holds the directory f2, which holds the file f3.  The task of f1 has    *)
(* set the owner and the ACL of the destination of f1; the entries below   *)
(* f1 wait in the list, each with its own task.                            *)
C24_Witness ==
    /\ phase = "running"
    /\ tree = Tree([e \in {"f1", "f2", "f3", "f4"} |->
                       IF e \in {"f1", "f2"} THEN "dir" ELSE "file"],
                   [e \in {"f1", "f2", "f3", "f4"} |->
                       IF e = "f2" THEN "f1" ELSE IF e = "f3" THEN "f2" ELSE Root])
    /\ files = <<"f1", "f4", "f2", "f3">>
    /\ task["f1"].pc = "done"
    /\ dstOwner["f1"] = srcOwner["f1"]
    /\ dstAcl["f1"] # {}
    /\ task["f2"].pc = "queued" /\ task["f3"].pc = "queued"
    /\ dstOwner["f2"] = Owner(0, 0) /\ dstAcl["f2"] = {}

-----------------------------------------------------------------------------
(* C25: every entry the translation emits has type A and a permission      *)
(* field that is not empty and holds only r, w and x; a named entry whose  *)
(* permission maps to the empty string has no entry emitted for it, so     *)
(* there are exactly as many entries as named entries with a valid name    *)
(* and a mapped permission that is not empty.                              *)
C25_NoEmptyOrDenyEntry ==
    \A p \in Paths :
       Translated(p)
       => LET src == NamedSource(task[p].posix_acl)
              out == task[p].nfs4_acls
          IN  /\ \A i \in 1..Len(out) :
                    /\ Len(Split(out[i])) = 4
                    /\ Split(out[i])[1] = <<"A">>
                    /\ Split(out[i])[1] # <<"D">>
                    /\ Split(out[i])[4] # <<>>
                    /\ Range(Split(out[i])[4]) \subseteq {"r", "w", "x"}
              /\ Len(out) = Cardinality({k \in 1..Len(src) :
                                            /\ NameOk(src[k].name)
                                            /\ MappedPerms(src[k].perms) # <<>>})
              /\ task[p].acl_count = Len(out)

(* C25, witness: user mary has --- and group dev1 r--; the one entry       *)
(* emitted is the group's.                                                 *)
C25_Witness ==
    /\ Translated("f1")
    /\ task["f1"].posix_acl.user = <<AclEntry(mary, Perm(FALSE, FALSE, FALSE))>>
    /\ task["f1"].posix_acl.group = <<AclEntry(dev1, Perm(TRUE, FALSE, FALSE))>>
    /\ cfg.domain = NoDomain
    /\ task["f1"].nfs4_acls = << <<"A", ":", "g", ":", "d", "e", "v", "1", ":", "r">> >>

-----------------------------------------------------------------------------
(* The counter of an outcome. *)
CounterOf(r) ==
    IF IsSkip(r) THEN "skipped" ELSE IF r.success THEN "success" ELSE "failed"

(* The paths of the run whose outcome has the counter k. *)
OutcomesOf(k) ==
    {p \in Range(files) : IsOutcome(task[p].result) /\ CounterOf(task[p].result) = k}

-----------------------------------------------------------------------------
(* The ACL of p was acquired and none of its named entries, if it has any, *)
(* was translated.                                                         *)
NothingTranslatable(p) ==
    /\ Finished(p)
    /\ task[p].posix_acl # NoAcl
    /\ \A k \in 1..Len(NamedSource(task[p].posix_acl)) :
          ~Kept(NamedSource(task[p].posix_acl)[k])

(* C27, as stated: for such a path no nfs4_setfacl is issued, the ACL step *)
(* succeeded and, ownership migration being off, the outcome is a success  *)
(* and the ledger holds a success row for the path.                        *)
C27_NothingToTranslateIsSuccess ==
    \A p \in Paths :
       NothingTranslatable(p)
       => /\ SetfaclCalls(p) = <<>>
          /\ task[p].acl_success
          /\ ~cfg.migrate_ownership
             => /\ IsOutcome(task[p].result) /\ task[p].result.success
                /\ ledger[p] # NoRow /\ ledger[p].status = "success"

(* C27, amended: no nfs4_setfacl is issued and the ACL step succeeded;     *)
(* with ownership migration off, either the ledger write went through, the *)
(* row of the path is its success row and the outcome is the success       *)
(* "nothing to migrate", or the write raised, no row was written and the   *)
(* outcome is a failure carrying the exception text.                       *)
C27_NothingToTranslateIsSuccessIfRecorded ==
    \A p \in Paths :
       NothingTranslatable(p)
       => /\ SetfaclCalls(p) = <<>>
          /\ dstAcl[p] = {}
          /\ task[p].nfs4_acls = <<>>
          /\ task[p].acl_success
          /\ ~cfg.migrate_ownership
             => IF Recorded(p)
                THEN /\ task[p].result.success
                     /\ task[p].result.message.text = MsgNothing
                     /\ ledger[p] = Row(DestPath(p), task[p].source_mtime,
                                        AclHash(task[p].posix_acl), "success")
                ELSE /\ ~task[p].result.success
                     /\ task[p].result.message.text = MsgDbError
                     /\ ledger[p] = NoRow

(* C27, witness: the only named entry of f1 is a user with a numeric name, *)
(* which is dropped; the task ended with the outcome "nothing to migrate", *)
(* a success row and an untouched destination.                             *)
C27_Witness ==
    /\ NothingTranslatable("f1")
    /\ task["f1"].posix_acl.user = <<AclEntry(n1001, Perm(TRUE, TRUE, FALSE))>>
    /\ task["f1"].posix_acl.group = <<>>
    /\ Recorded("f1")
    /\ task["f1"].result.success
    /\ ledger["f1"].status = "success"
    /\ calls["f1"] = <<Call("getfacl", <<>>, "f1", "ok")>>

-----------------------------------------------------------------------------
Hung(p) == task[p].pc = "hung"

(* Every worker thread of the pool waits in a call that never returns. *)
AllWorkersHung == Cardinality({q \in Paths : Hung(q)}) >= cfg.workers

C29_SkipOnlyAfterLatestSuccess ==
    [][\A p \in Paths :
         /\ (Starts(p) /\ IsSkip(task'[p].result))
            => /\ cfg.incremental
               /\ SuccessRowNear(p, mtime[p])
               /\ p \notin demoted
         /\ (Starts(p) /\ ledger[p] # NoRow /\ ledger[p].status = "failed")
            => ~IsSkip(task'[p].result)
         /\ (task[p].pc = "record" /\ task'[p].pc # "record"
             /\ IsOutcome(task'[p].result)
             /\ task'[p].result.message.text # MsgDbError)
            => ledger'[p] = Row(DestPath(p), task[p].source_mtime,
                                AclHash(task[p].posix_acl),
                                IF task'[p].result.success THEN "success" ELSE "failed")
         /\ p \in demoted'
            => ledger'[p] # NoRow /\ ledger'[p].status = "failed"]_vars

(* C29, witness: an incremental run is migrating a path again whose mtime  *)
(* is the one of its row, a failed row that an earlier run wrote over the  *)
(* success row of a run before it.                                          *)
C29_Witness ==
    \E p \in Paths :
       /\ cfg.incremental
       /\ Running(p)
       /\ p \in demoted
       /\ ledger[p].status = "failed"
       /\ ledger[p].mtime = mtime[p]

(* C30: the step in which migrate_file_acl returns the skip outcome issues *)
(* no getfacl, no nfs4_setfacl and no chown, writes nothing to the ledger  *)
(* and changes nothing at the destination, and it is the last step of the  *)
(* call; while the skipped task waits for the end of the run, the row,     *)
(* the owner and the entries of its path stay as they were, and no         *)
(* command is ever issued for it.                                          *)
C30_SkipChangesNothing ==
    [][\A p \in Paths :
         /\ (Starts(p) /\ IsSkip(task'[p].result))
            => /\ task'[p].pc = "done"
               /\ calls' = calls
               /\ calls[p] = <<>>
               /\ ledger' = ledger
               /\ dstAcl' = dstAcl
               /\ dstOwner' = dstOwner
               /\ dstExists' = dstExists
         /\ (Finished(p) /\ IsSkip(task[p].result))
            => /\ calls'[p] = <<>>
               /\ ledger'[p] = ledger[p]
               /\ dstAcl'[p] = dstAcl[p]
               /\ dstOwner'[p] = dstOwner[p]]_vars

(* C30, witness: a run with --ownership has skipped a path whose           *)
(* destination has another owner than the source and lacks entries the     *)
(* source ACL translates to; no command was issued for it.                 *)
C30_Witness ==
    \E p \in Paths :
       /\ cfg.migrate_ownership
       /\ Finished(p)
       /\ IsSkip(task[p].result)
       /\ ~OwnershipMatches(srcOwner[p], dstOwner[p])
       /\ srcAcl[p] # NoAcl
       /\ dstAcl[p] = {}
       /\ calls[p] = <<>>

-----------------------------------------------------------------------------
(* The directories an entry lies in, up to the source root. *)
RECURSIVE Ancestors(_, _)
Ancestors(t, e) ==
    IF e = Root THEN {} ELSE {t.parent[e]} \cup Ancestors(t, t.parent[e])

(* The destination counterpart of the source root in directory mode. *)
DestRoot == <<"dest_dir">>

(* C31: in directory mode the source root is no element of the list of the *)
(* scan and of no dirs or filenames of the walk, of which it is only the   *)
(* top; every path submitted is an entry of the tree that lies in the root *)
(* or in a directory below it; no command names the root or its            *)
(* destination counterpart, and no ledger row is written for them.         *)
C31_RootNeverEnumerated ==
    mode = "dir"
    => /\ Root \notin Range(scan_files(mode, tree))
       /\ LET walk == os_walk(tree, Root)
          IN  /\ walk[1].root = Root
              /\ \A i \in 1..Len(walk) :
                    Root \notin Range(walk[i].dirs) \cup Range(walk[i].filenames)
              /\ \A i \in 2..Len(walk) : walk[i].root # Root
       /\ \A i \in 1..Len(files) :
             /\ files[i] # Root
             /\ files[i] \in DOMAIN tree.kind
             /\ Root \in Ancestors(tree, files[i])
       /\ \A p \in DOMAIN task : task[p].pc # "none" => p # Root /\ DestPath(p) # DestRoot
       /\ \A p \in DOMAIN calls : \A i \in 1..Len(calls[p]) :
             IF IsGetfacl(calls[p][i])
             THEN calls[p][i].path # Root
             ELSE calls[p][i].path # DestRoot
       /\ \A p \in DOMAIN ledger :
             ledger[p] # NoRow => p # Root /\ ledger[p].dest_path # DestRoot

(* C31, witness: the root holds the directory f1, which holds the          *)
(* directory f2; the task of f1, the first of the list, has run chown,     *)
(* getfacl and nfs4_setfacl and written its row, all of them for f1 and    *)
(* its destination.                                                        *)
C31_Witness ==
    /\ mode = "dir"
    /\ tree = Tree([e \in {"f1", "f2"} |-> "dir"],
                   [e \in {"f1", "f2"} |-> IF e = "f1" THEN Root ELSE "f1"])
    /\ files = <<"f1", "f2">>
    /\ task["f1"].pc = "done"
    /\ ChownCalls("f1") # <<>>
    /\ GetfaclCalls("f1") # <<>>
    /\ SetfaclCalls("f1") # <<>>
    /\ ledger["f1"] # NoRow
    /\ ledger["f1"].dest_path = <<"dest_dir", "f1">>

====
